---- MODULE Spec2Model ----
(***************************************************************************)
(* A model of the ASP-based concretizer of Spack                          *)
(* (lib/spack/spack/solver/asp.py).                                       *)
(*                                                                         *)
(* The module holds several state machines over one set of variables,     *)
(* each with its own specification:                                        *)
(*                                                                         *)
(*   SolveSpec    PyclingoDriver.solve: setup, ground, solve callbacks,   *)
(*                construction of the Result                               *)
(*   BuildSpec    SpecBuilder.build_specs: sort and dispatch of the       *)
(*                model's atoms                                            *)
(*   FlagSpec     SpecBuilder.reorder_flags                                *)
(*   VersionSpec  SpackSolverSetup.pkg_version_rules                       *)
(*   DepSpec      SpackSolverSetup.package_dependencies_rules              *)
(*   ConflictSpec SpackSolverSetup.conflict_rules and the integrity       *)
(*                constraint the driver adds for it                        *)
(*   SetupSpec    the constraint-recording and define_* phases of         *)
(*                SpackSolverSetup.setup, run twice on the same input     *)
(*   CompilerBuildSpec  build_specs on models with compiler atoms         *)
(*   ExtendSpec   extend_flag_list                                         *)
(*   PostSpec     the post-construction steps of build_specs              *)
(*   WorldSpec    the possible packages of setup and their rules          *)
(*   DriverSpec   the assertion calls of PyclingoDriver                   *)
(*   OneOfSpec    the answer sets of the rules of one_of_iff              *)
(*   CmdSpec      the solve subcommand (lib/spack/spack/cmd/solve.py)     *)
(*   TermSpec     AspFunction.symbol and the reading back of symbols       *)
(*   NormalizeSpec  _normalize_packages_yaml, called by setup and by the   *)
(*                Spec builder on one mapping                              *)
(*   ExternalSpec SpackSolverSetup.external_packages and the candidates    *)
(*                its rules admit                                          *)
(*   TargetSpec   SpackSolverSetup.target_defaults                         *)
(*   PhaseSpec    the order of the recording and define_* phases of setup  *)
(*   TargetConstraintSpec  SpackSolverSetup.define_target_constraints      *)
(*                and the candidates its rules admit                       *)
(*                                                                         *)
(* A machine leaves the variables of the other machines at their idle     *)
(* values.                                                                 *)
(***************************************************************************)
EXTENDS Integers, Sequences, FiniteSets, TLC

VARIABLES
    \* ---- PyclingoDriver.solve
    pc,                 \* position in the running operation
    specs,              \* nodes of the input specs, in traversal order
    strict,             \* Concretizer().check_for_compiler_existence
    possible_compilers, \* SpackSolverSetup.possible_compilers
    models,             \* models collected by on_model: (cost, symbols)
    cores,              \* cores collected by on_core
    result,             \* the Result object of solve()
    raised,             \* exception that left solve(), "none" if none
    grounded,           \* whether control.ground has run
    solver_runs,        \* number of calls of control.solve
    builder_runs,       \* number of calls of SpecBuilder.build_specs
    \* ---- SpecBuilder
    best_model,         \* the model's atoms, in the order the solver gave
    function_tuples,    \* the model's atoms, as build_specs holds them
    spec_order,         \* the names in self._specs, in insertion order
    deprecated,         \* the packages whose chosen version is deprecated
    post_log,           \* the post-construction steps done: (step, package)
    arg_flag_list,      \* the list extend_flag_list extends in place
    arg_new_flags,      \* the flags it is extended with
    old_flag_list,      \* what the list held when the call was made
    pos,                \* number of tuples build_specs has dispatched
    builder_specs,      \* SpecBuilder._specs: package name -> Spec
    spec_objects,       \* number of Spec objects created by the builder
    flag_sources,       \* SpecBuilder._flag_sources: package -> source names
    flag_compiler_defaults, \* SpecBuilder._flag_compiler_defaults
    cmd_flags,          \* compiler_flags of the command-line spec nodes
    \* ---- SpackSolverSetup
    pkg_versions,       \* pkg.versions: version -> how it is declared
    input_versions,     \* concrete versions of the package in input specs
    version_prefs,      \* packages.yaml: the package's "version" list
    possible_versions,  \* SpackSolverSetup.possible_versions[pkg]
    packages_yaml,      \* the packages configuration, in key order
    normalized_yaml,    \* what _normalize_packages_yaml returned
    yaml_object,        \* the mapping the caller holds, as the calls left it
    target_compilers,   \* self.possible_compilers, when targets are set up
    spec_targets,       \* the targets of the input specs, in their order
    target_support,     \* (compiler, target): optimization_flags succeeds
    pkg_name,           \* name of the package whose rules are emitted
    tests,              \* the tests argument of setup()
    dependencies,       \* pkg.dependencies, in sorted order
    virtual_constraints, \* SpackSolverSetup.virtual_constraints
    version_constraints, \* SpackSolverSetup.version_constraints
    compiler_version_constraints, \* ...compiler_version_constraints
    target_constraints, \* SpackSolverSetup.target_constraints
    defined_log,        \* what each define_* phase went through, in order
    conflicts,          \* pkg.conflicts: (trigger, constraint) pairs
    gen_cores,          \* PyclingoDriver.cores
    candidate,          \* atoms true in a candidate answer set
    rejected,           \* whether an integrity constraint rules it out
    input_specs,        \* the nodes of the input specs of setup()
    setup_run,          \* which of two runs of setup() is under way
    first_run,          \* what the first run gave to its generator
    repo,               \* pkg.dependencies of the packages of the repository
    pkgs,               \* the possible packages of setup()
    backend_rules,      \* rules added to the solver backend, in order
    assumptions,        \* PyclingoDriver.assumptions
    driver_calls,       \* number of assertion calls made on the driver
    \* ---- the solve subcommand
    cmd_show,           \* args.show, split at its commas
    cmd_models,         \* args.models
    cmd_satisfiable,    \* whether the specs on the command line can be solved
    cmd_dump,           \* dump, once the options are processed
    cmd_log,            \* what the command has done, in order
    cmd_exit,           \* how the command ended
    \* ---- the term model
    term,               \* an AspFunction: name and arguments
    symbol,             \* the clingo symbol made of it
    read_back,          \* the (name, arguments) tuple read from the symbol
    emitted             \* facts and rules given to self.gen, in order

solveVars == <<specs, strict, possible_compilers, models, cores,
               result, grounded, solver_runs, builder_runs>>

postVars == <<spec_order, deprecated, post_log>>

extendVars == <<arg_flag_list, arg_new_flags, old_flag_list>>

buildVars == <<postVars, extendVars, best_model, function_tuples, pos,
               builder_specs, spec_objects,
               flag_sources, flag_compiler_defaults, cmd_flags>>

configVars == <<packages_yaml, normalized_yaml, yaml_object>>

targetVars == <<target_compilers, spec_targets, target_support>>

versionVars == <<pkg_versions, input_versions, version_prefs,
                 possible_versions, configVars, targetVars>>

depVars == <<pkg_name, tests, dependencies>>

recordVars == <<virtual_constraints, version_constraints,
                compiler_version_constraints, target_constraints,
                defined_log>>

conflictVars == <<conflicts, gen_cores, candidate, rejected>>

runVars == <<input_specs, setup_run, first_run, repo, pkgs>>

driverVars == <<backend_rules, assumptions, driver_calls>>

setupVars == <<versionVars, depVars, recordVars, conflictVars, runVars,
               driverVars, emitted>>

cmdVars == <<cmd_show, cmd_models, cmd_satisfiable, cmd_dump, cmd_log,
             cmd_exit, term, symbol, read_back>>

vars == <<pc, raised, solveVars, buildVars, setupVars, cmdVars>>

\* what each machine leaves alone
solveFrame == <<buildVars, setupVars, cmdVars>>
buildFrame == <<solveVars, setupVars, cmdVars>>
setupFrame == <<solveVars, buildVars, cmdVars>>
cmdFrame == <<solveVars, buildVars, setupVars>>

-----------------------------------------------------------------------------
(* Idle values of each machine's variables *)

SolveIdle ==
    /\ specs = <<>>
    /\ strict = FALSE
    /\ possible_compilers = {}
    /\ models = <<>>
    /\ cores = <<>>
    /\ result = <<>>
    /\ grounded = FALSE
    /\ solver_runs = 0
    /\ builder_runs = 0

PostIdle ==
    /\ spec_order = <<>>
    /\ deprecated = {}
    /\ post_log = <<>>

ExtendIdle ==
    /\ arg_flag_list = <<>>
    /\ arg_new_flags = <<>>
    /\ old_flag_list = <<>>

BuildIdle ==
    /\ PostIdle
    /\ ExtendIdle
    /\ best_model = <<>>
    /\ function_tuples = <<>>
    /\ pos = 0
    /\ builder_specs = <<>>
    /\ spec_objects = 0
    /\ flag_sources = <<>>
    /\ flag_compiler_defaults = {}
    /\ cmd_flags = <<>>

TargetIdle ==
    /\ target_compilers = {}
    /\ spec_targets = <<>>
    /\ target_support = {}

ConfigIdle ==
    /\ packages_yaml = <<>>
    /\ normalized_yaml = <<>>
    /\ yaml_object = <<>>

VersionIdle ==
    /\ pkg_versions = <<>>
    /\ input_versions = {}
    /\ version_prefs = <<>>
    /\ possible_versions = {}
    /\ ConfigIdle
    /\ TargetIdle

DepIdle ==
    /\ pkg_name = ""
    /\ tests = <<>>
    /\ dependencies = <<>>

RecordIdle ==
    /\ virtual_constraints = {}
    /\ version_constraints = {}
    /\ compiler_version_constraints = {}
    /\ target_constraints = {}
    /\ defined_log = <<>>

ConflictIdle ==
    /\ conflicts = <<>>
    /\ gen_cores = FALSE
    /\ candidate = {}
    /\ rejected = FALSE

RunIdle ==
    /\ input_specs = <<>>
    /\ setup_run = 0
    /\ first_run = <<>>
    /\ repo = <<>>
    /\ pkgs = {}

DriverIdle ==
    /\ backend_rules = <<>>
    /\ assumptions = <<>>
    /\ driver_calls = 0

CmdIdle ==
    /\ cmd_show = <<>>
    /\ cmd_models = 0
    /\ cmd_satisfiable = FALSE
    /\ cmd_dump = <<>>
    /\ cmd_log = <<>>
    /\ cmd_exit = ""
    /\ term = <<>>
    /\ symbol = <<>>
    /\ read_back = <<>>

SetupIdle ==
    /\ VersionIdle
    /\ DepIdle
    /\ RecordIdle
    /\ ConflictIdle
    /\ RunIdle
    /\ DriverIdle
    /\ emitted = <<>>

-----------------------------------------------------------------------------
(* Generic helpers *)

\* the sequences over S of length at most n
SeqsUpTo(S, n) == UNION {[1..k -> S] : k \in 0..n}

Range(s) == {s[i] : i \in 1..Len(s)}

Min2(a, b) == IF a <= b THEN a ELSE b

-----------------------------------------------------------------------------
(* PyclingoDriver.solve *)

\* bounds of the inputs of a solve
MaxSpecNodes == 2
MaxModels == 2
MaxCores == 2

\* compilers of the compiler configuration (all_compilers_in_config)
ConfiguredCompilers == {"gcc@4.5.0"}

\* a node of an input spec: whether the repository knows its name (as a
\* package or as a virtual), its concrete compiler ("none": no compiler, or an
\* abstract one), and the variant it sets: a non-special variant with a valid
\* or an invalid value, or the special variant dev_path
SpecNodes ==
    [known : BOOLEAN,
     compiler : {"none", "gcc@4.5.0", "gcc@100.100"},
     variant : {"valid", "invalid", "dev_path"}]

\* check_packages_exist: the first node whose name is unknown raises
check_packages_exist(ss) ==
    IF \E i \in 1..Len(ss) : ~ss[i].known
    THEN "UnknownPackageError" ELSE "none"

\* the concrete compilers of the input nodes
InputCompilers(ss) ==
    {ss[i].compiler : i \in {j \in 1..Len(ss) : ss[j].compiler # "none"}}

\* generate_possible_compilers: error and returned cspecs
generate_possible_compilers_MissingStrict(ss, st) ==
    [error |-> "none", cspecs |-> ConfiguredCompilers \cup InputCompilers(ss)]

generate_possible_compilers(ss, st) ==
    IF st /\ \E c \in InputCompilers(ss) : c \notin ConfiguredCompilers
    THEN [error |-> "UnavailableCompilerVersionError",
          cspecs |-> ConfiguredCompilers]
    ELSE [error |-> "none",
          cspecs |-> ConfiguredCompilers \cup InputCompilers(ss)]

\* the injection of the input specs in setup(): a variant_set clause of a
\* variant other than dev_path and patches is validated
validate_or_raise(ss) ==
    IF \E i \in 1..Len(ss) : ss[i].variant = "invalid"
    THEN "InvalidVariantValueError" ELSE "none"

\* SpackSolverSetup.setup, as far as it can raise: the error it ends with and
\* the possible compilers it has stored by then
setup_outcome(ss, st) ==
    LET e1 == check_packages_exist(ss)
        gc == generate_possible_compilers(ss, st)
        e3 == validate_or_raise(ss)
    IN  IF e1 # "none" THEN [error |-> e1, compilers |-> {}]
        ELSE IF gc.error # "none" THEN [error |-> gc.error, compilers |-> {}]
        ELSE [error |-> e3, compilers |-> gc.cspecs]

\* cost vectors of the models: model.cost, a list of integers
Costs == {<<0, 0>>, <<0, 1>>, <<1, 0>>, <<1, 1>>}

\* the shown symbols of a model, by identity of the atom list
SymbolSets == {1, 2}

\* comparison of Python lists of integers
RECURSIVE ListLess(_, _)
ListLess(a, b) ==
    IF Len(b) = 0 THEN FALSE
    ELSE IF Len(a) = 0 THEN TRUE
    ELSE IF a[1] # b[1] THEN a[1] < b[1]
    ELSE ListLess(Tail(a), Tail(b))

\* comparison of the (cost, symbols) tuples that on_model collects
TupleLess(m1, m2) ==
    \/ ListLess(m1.cost, m2.cost)
    \/ m1.cost = m2.cost /\ m1.symbols < m2.symbols

\* min(models): the first element no other element is less than
PyMin_Last(ms) == ms[Len(ms)]

PyMin(ms) ==
    LET best == {i \in 1..Len(ms) :
                    \A j \in 1..Len(ms) : ~TupleLess(ms[j], ms[i])}
    IN  ms[CHOOSE i \in best : \A j \in best : i <= j]

\* the specs SpecBuilder.build_specs returns for a model's atoms
BuiltFrom(symbols) == [built_from |-> symbols]

\* atoms a core can hold: the assumptions of the solve, which are the rule
\* atoms rule("<text>") and the atoms of the facts
Sym(name, arg) == [name |-> name, arg |-> arg, string |-> FALSE]
CoreLists == {<<>>,
              <<Sym("rule", "a :- b.")>>,
              <<Sym("node", "a"), Sym("rule", ":- c,not d.")>>,
              <<Sym("rule", "a :- b."), Sym("rule", ":- c,not d.")>>,
              <<Sym("node", "a")>>}

\* a core atom as it is stored in Result.cores: the text of a rule atom
\* (a string), any other symbol as it is
RenderAtom_KeepRule(sym) == sym

RenderAtom(sym) ==
    IF sym.name = "rule"
    THEN [name |-> "", arg |-> sym.arg, string |-> TRUE]
    ELSE sym

RenderCore(core) == [k \in 1..Len(core) |-> RenderAtom(core[k])]

NewResult == [satisfiable |-> "None", answers |-> <<>>, cores |-> <<>>]

SolveInit ==
    /\ pc = "setup"
    /\ specs \in SeqsUpTo(SpecNodes, MaxSpecNodes) \ {<<>>}
    /\ strict \in BOOLEAN
    /\ possible_compilers = {}
    /\ models = <<>>
    /\ cores = <<>>
    /\ result = NewResult
    /\ raised = "none"
    /\ grounded = FALSE
    /\ solver_runs = 0
    /\ builder_runs = 0
    /\ BuildIdle
    /\ SetupIdle
    /\ CmdIdle

\* solve(), lines 607-621: the control object and solver_setup.setup
solver_setup ==
    /\ pc = "setup"
    /\ LET o == setup_outcome(specs, strict)
       IN  /\ possible_compilers' = o.compilers
           /\ raised' = o.error
           /\ pc' = IF o.error = "none" THEN "ground" ELSE "raised"
    /\ UNCHANGED <<specs, strict, models, cores, result, grounded,
                   solver_runs, builder_runs>>
    /\ UNCHANGED solveFrame

\* solve(), lines 623-638: load and ground the program, create the Result
ground ==
    /\ pc = "ground"
    /\ pc' = "solve"
    /\ result' = NewResult
    /\ models' = <<>>
    /\ cores' = <<>>
    /\ grounded' = TRUE
    /\ UNCHANGED <<specs, strict, possible_compilers, raised, solver_runs,
                   builder_runs>>
    /\ UNCHANGED solveFrame

\* solve(), line 643: control.solve is entered
control_solve ==
    /\ pc = "solve"
    /\ pc' = "solving"
    /\ solver_runs' = solver_runs + 1
    /\ UNCHANGED <<specs, strict, possible_compilers, models, cores, result,
                   raised, grounded, builder_runs>>
    /\ UNCHANGED solveFrame

\* the solver reports a model: on_model appends (model.cost, symbols).
\* The solver reports models only for a satisfiable program.
on_model ==
    /\ pc = "solving"
    /\ cores = <<>>
    /\ Len(models) < MaxModels
    /\ \E c \in Costs, s \in SymbolSets :
          models' = Append(models, [cost |-> c, symbols |-> s])
    /\ UNCHANGED <<pc, specs, strict, possible_compilers, cores, result,
                   raised, grounded, solver_runs, builder_runs>>
    /\ UNCHANGED solveFrame

\* the solver reports a core: on_core = cores.append.
\* The solver reports cores only for an unsatisfiable program.
on_core ==
    /\ pc = "solving"
    /\ models = <<>>
    /\ Len(cores) < MaxCores
    /\ \E c \in CoreLists : cores' = Append(cores, c)
    /\ UNCHANGED <<pc, specs, strict, possible_compilers, models, result,
                   raised, grounded, solver_runs, builder_runs>>
    /\ UNCHANGED solveFrame

\* solve(), lines 650-687: control.solve returns and the Result is built
construct_result ==
    /\ pc = "solving"
    /\ \E sat \in BOOLEAN :
          /\ sat => cores = <<>>
          /\ ~sat => models = <<>>
          /\ IF sat /\ models = <<>>
             THEN \* min() of an empty list
                  /\ raised' = "ValueError"
                  /\ pc' = "raised"
                  /\ result' = [result EXCEPT !.satisfiable = "True"]
                  /\ UNCHANGED builder_runs
             ELSE IF sat
             THEN LET best == PyMin(models)
                  IN  /\ result' =
                           [result EXCEPT
                              !.satisfiable = "True",
                              !.answers = Append(result.answers,
                                 [cost |-> best.cost, idx |-> 0,
                                  specs |-> BuiltFrom(best.symbols)])]
                      /\ builder_runs' = builder_runs + 1
                      /\ pc' = "done"
                      /\ UNCHANGED raised
             ELSE /\ result' =
                       [result EXCEPT
                          !.satisfiable = "False",
                          !.cores = [i \in 1..Len(cores) |->
                                        RenderCore(cores[i])]]
                  /\ pc' = "done"
                  /\ UNCHANGED <<raised, builder_runs>>
    /\ UNCHANGED <<specs, strict, possible_compilers, models, cores,
                   grounded, solver_runs>>
    /\ UNCHANGED solveFrame

SolveNext ==
    \/ solver_setup
    \/ ground
    \/ control_solve
    \/ on_model
    \/ on_core
    \/ construct_result

SolveSpec == SolveInit /\ [][SolveNext]_vars

-----------------------------------------------------------------------------
(* Claims about PyclingoDriver.solve *)

\* C1: on a satisfiable solve that reported at least one model, Result.answers
\* holds exactly one entry, with model index 0, whose cost vector and specs are
\* those of one collected model, and no collected model has a
\* lexicographically smaller cost vector.
C1_LowestCostModelIsBuilt ==
    (pc = "done" /\ result.satisfiable = "True") =>
        /\ models # <<>>
        /\ Len(result.answers) = 1
        /\ result.answers[1].idx = 0
        /\ \E i \in 1..Len(models) :
              /\ result.answers[1].cost = models[i].cost
              /\ result.answers[1].specs = BuiltFrom(models[i].symbols)
        /\ \A j \in 1..Len(models) :
              ~ListLess(models[j].cost, result.answers[1].cost)

\* a satisfiable solve has ended whose first model is cheaper than its last
C1_Witness ==
    /\ pc = "done"
    /\ result.satisfiable = "True"
    /\ Len(models) >= 2
    /\ ListLess(models[1].cost, models[Len(models)].cost)

\* C2: an unsatisfiable solve does not raise; it returns satisfiable = false,
\* no answers, never calls the Spec builder, and Result.cores has one entry per
\* reported core, with each rule("text") atom replaced by its text and every
\* other atom unchanged.
C2_UnsatReturnsRenderedCores ==
    (result.satisfiable = "False") =>
        /\ pc = "done"
        /\ raised = "none"
        /\ result.answers = <<>>
        /\ builder_runs = 0
        /\ Len(result.cores) = Len(cores)
        /\ \A i \in 1..Len(cores) :
              /\ Len(result.cores[i]) = Len(cores[i])
              /\ \A k \in 1..Len(cores[i]) :
                    IF cores[i][k].name = "rule"
                    THEN /\ result.cores[i][k].string
                         /\ result.cores[i][k].arg = cores[i][k].arg
                    ELSE result.cores[i][k] = cores[i][k]

\* an unsatisfiable solve has ended with a core that holds a rule atom and
\* another atom
C2_Witness ==
    /\ pc = "done"
    /\ result.satisfiable = "False"
    /\ \E i \in 1..Len(cores) :
          /\ \E k \in 1..Len(cores[i]) : cores[i][k].name = "rule"
          /\ \E k \in 1..Len(cores[i]) : cores[i][k].name # "rule"

\* the errors Setup raises for the input specs, by the condition of each
HasUnknownPackage == \E i \in 1..Len(specs) : ~specs[i].known
HasUnconfiguredCompiler ==
    \E i \in 1..Len(specs) :
        specs[i].compiler \notin ConfiguredCompilers \cup {"none"}
HasInvalidVariant == \E i \in 1..Len(specs) : specs[i].variant = "invalid"
ExpectedSetupErrors ==
    (IF HasUnknownPackage THEN {"UnknownPackageError"} ELSE {})
    \cup (IF strict /\ HasUnconfiguredCompiler
          THEN {"UnavailableCompilerVersionError"} ELSE {})
    \cup (IF HasInvalidVariant THEN {"InvalidVariantValueError"} ELSE {})

\* C4: an unknown package, a concrete compiler that is not configured under
\* strict checking, or an invalid value of a non-special variant makes Setup
\* raise the matching error before grounding and before the solver's solve
\* call, and no Result is returned; without strict checking the compiler
\* raises nothing and is among the possible compilers.
C4_SetupErrorsBeforeSolver ==
    /\ (pc # "setup" /\ ExpectedSetupErrors # {}) =>
          /\ pc = "raised"
          /\ raised \in ExpectedSetupErrors
          /\ ~grounded
          /\ solver_runs = 0
          /\ result = NewResult
    /\ (pc # "setup" /\ ~strict) =>
          /\ raised # "UnavailableCompilerVersionError"
          /\ ~HasUnknownPackage =>
                \A i \in 1..Len(specs) :
                    specs[i].compiler # "none" =>
                        specs[i].compiler \in possible_compilers

\* Setup has raised for a compiler that is not configured
C4_Witness ==
    /\ pc = "raised"
    /\ raised = "UnavailableCompilerVersionError"
    /\ strict
    /\ HasUnconfiguredCompiler

-----------------------------------------------------------------------------
(* SpecBuilder.build_specs *)

\* bound on the number of atoms of a model
MaxAtoms == 5

\* package names and dependency types of the models
Pkgs == {"a", "b", "c"}
DepTypes == {"build", "link"}

Atom(name, args) == [name |-> name, args |-> args]

\* the atoms a model is drawn from: a node per package, and dependencies of a
\* and of b on c
ModelAtoms ==
    {Atom("node", <<p>>) : p \in Pkgs}
    \cup {Atom("depends_on", <<pd[1], pd[2], t>>) :
             pd \in {<<"a", "c">>, <<"b", "c">>}, t \in DepTypes}

\* the sort key of build_specs
SortKey(f) ==
    IF f.name = "node" THEN -2
    ELSE IF f.name = "node_compiler" THEN -1
    ELSE 0

WithKey(seq, k) == SelectSeq(seq, LAMBDA f : SortKey(f) = k)

\* function_tuples.sort(key=...): stable, ascending in the key
sort_function_tuples_CompilersFirst(seq) ==
    WithKey(seq, -1) \o WithKey(seq, -2) \o WithKey(seq, 0)

sort_function_tuples(seq) ==
    WithKey(seq, -2) \o WithKey(seq, -1) \o WithKey(seq, 0)

\* flag categories (spack.spec.FlagMap.valid_compiler_flags), two of them
FlagTypes == {"cflags", "ldflags"}

\* a Spec object: its identity (0: no object), its _dependencies, an edge
\* per dependency name with the identity of the Spec it points to (0: no
\* edge) and its dependency types, its compiler (name "": None), and its
\* compiler_flags, a list of flags per category (no entry and an empty list
\* are the same to the code here)
NoEdge == [target |-> 0, types |-> {}]
NoFlags == [k \in FlagTypes |-> <<>>]
NewSpec(id) ==
    [id |-> id, deps |-> [d \in Pkgs |-> NoEdge],
     compiler |-> [name |-> "", versions |-> ""], compiler_flags |-> NoFlags]
NoSpec == NewSpec(0)

\* SpecBuilder.node: _specs after the atom node(pkg), with the number of
\* Spec objects created so far
node_Replacing(sp, n, pkg) ==
    [specs |-> [sp EXCEPT ![pkg] = NewSpec(n + 1)], objects |-> n + 1]

node(sp, n, pkg) ==
    IF sp[pkg].id = 0
    THEN [specs |-> [sp EXCEPT ![pkg] = NewSpec(n + 1)], objects |-> n + 1]
    ELSE [specs |-> sp, objects |-> n]

\* SpecBuilder.depends_on, for packages that have a Spec: a new edge to
\* _specs[dep] with the one type, or the type added to the edge there is
depends_on_Overwriting(sp, pkg, dep, type) ==
    [sp EXCEPT ![pkg].deps[dep] = [target |-> sp[dep].id, types |-> {type}]]

depends_on(sp, pkg, dep, type) ==
    LET dependency == sp[pkg].deps[dep]
    IN  IF dependency.target = 0
        THEN [sp EXCEPT ![pkg].deps[dep] =
                 [target |-> sp[dep].id, types |-> {type}]]
        ELSE [sp EXCEPT ![pkg].deps[dep].types = @ \cup {type}]

\* list.remove(x): the list without its first x
RECURSIVE RemoveFirst(_, _)
RemoveFirst(list, x) ==
    IF list = <<>> THEN <<>>
    ELSE IF Head(list) = x THEN Tail(list)
    ELSE <<Head(list)>> \o RemoveFirst(Tail(list), x)

\* extend_flag_list: flag_list after the call
extend_flag_list_Appending(flag_list, new_flags) == flag_list \o new_flags

RECURSIVE extend_flag_list(_, _)
extend_flag_list(flag_list, new_flags) ==
    IF new_flags = <<>> THEN flag_list
    ELSE LET flag == Head(new_flags)
             kept == IF flag \in Range(flag_list)
                     THEN RemoveFirst(flag_list, flag) ELSE flag_list
         IN  extend_flag_list(Append(kept, flag), Tail(new_flags))

\* check_same_flags: whether its assertion holds
check_same_flags(flag_dict_1, flag_dict_2) ==
    \A t \in FlagTypes : Range(flag_dict_1[t]) = Range(flag_dict_2[t])

\* the flags of the one compiler of the configuration (compiler.flags)
CompilerFlags == [k \in FlagTypes |-> IF k = "cflags" THEN <<"-g">> ELSE <<>>]

\* package names in sorted order
PkgOrder == <<"a", "b", "c">>

\* the parents of a spec: the packages that have an edge to it
Parents(sp, x) == {p \in Pkgs : sp[p].id # 0 /\ sp[p].deps[x].target # 0}

\* spec.traverse(order='post', direction='parents'): the names seen, given
\* the names seen before; the parents, by name, come before the spec itself
RECURSIVE TraversePost(_, _, _)
TraversePost(sp, todo, seen) ==
    IF todo = <<>> THEN seen
    ELSE LET x == Head(todo)
         IN  IF x \in Range(seen)
             THEN TraversePost(sp, Tail(todo), seen)
             ELSE LET above == TraversePost(
                          sp,
                          SelectSeq(PkgOrder, LAMBDA q : q \in Parents(sp, x)),
                          seen)
                  IN  TraversePost(sp, Tail(todo), Append(above, x))

\* reorder_flags, lines 1756-1758: the names of the spec and its ancestors
dag_order(sp, pkg) == TraversePost(sp, <<pkg>>, <<>>)

\* reorder_flags, lines 1761-1762: the sources sorted by their index in order
sorted_sources_Reversed(order, sources) ==
    LET fwd == SelectSeq(order, LAMBDA x : x \in sources)
    IN  [i \in 1..Len(fwd) |-> fwd[Len(fwd) + 1 - i]]

sorted_sources(order, sources) == SelectSeq(order, LAMBDA x : x \in sources)

\* reorder_flags, lines 1765-1769: the flags of one category after the flags
\* of each source are added, lowest to highest precedence
RECURSIVE merge_sources(_, _, _, _)
merge_sources(flags, srcs, cmd, k) ==
    IF srcs = <<>> THEN flags
    ELSE merge_sources(extend_flag_list(flags, cmd[Head(srcs)][k]),
                       Tail(srcs), cmd, k)

\* reorder_flags, first loop: a node of _flag_compiler_defaults takes the
\* flags of its compiler
with_compiler_defaults(sp, defaults) ==
    [p \in Pkgs |->
        IF p \in defaults
        THEN [sp[p] EXCEPT !.compiler_flags = CompilerFlags]
        ELSE sp[p]]

\* reorder_flags, second loop: the flags of a spec with flag sources
ordered_flags(sp, sources, cmd, pkg) ==
    [k \in FlagTypes |->
        merge_sources(<<>>,
                      sorted_sources(dag_order(sp, pkg), sources[pkg]),
                      cmd, k)]

\* SpecBuilder.reorder_flags: the specs after it, or the error it raises
reorder_flags(sp, defaults, sources, cmd) ==
    LET sp1 == with_compiler_defaults(sp, defaults)
        sourced == {p \in Pkgs : sources[p] # {}}
        flags == [p \in sourced |-> ordered_flags(sp1, sources, cmd, p)]
    IN  IF \E p \in defaults :
              ~check_same_flags(sp[p].compiler_flags, CompilerFlags)
        THEN [error |-> "AssertionError", specs |-> sp]
        ELSE IF \E p \in sourced :
              ~check_same_flags(sp1[p].compiler_flags, flags[p])
        THEN [error |-> "AssertionError", specs |-> sp1]
        ELSE [error |-> "none",
              specs |-> [p \in Pkgs |->
                  IF p \in sourced
                  THEN [sp1[p] EXCEPT !.compiler_flags = flags[p]]
                  ELSE sp1[p]]]

BuildInit ==
    /\ pc = "build_specs"
    /\ raised = "none"
    /\ function_tuples \in SeqsUpTo(ModelAtoms, MaxAtoms)
    /\ best_model = function_tuples
    /\ PostIdle
    /\ ExtendIdle
    /\ pos = 0
    /\ builder_specs = [p \in Pkgs |-> NoSpec]
    /\ spec_objects = 0
    /\ flag_sources = [p \in Pkgs |-> {}]
    /\ flag_compiler_defaults = {}
    /\ cmd_flags = [p \in Pkgs |-> NoFlags]
    /\ SolveIdle
    /\ SetupIdle
    /\ CmdIdle

\* build_specs, lines 1778-1783: sort the tuples, start with no specs
sort_tuples ==
    /\ pc = "build_specs"
    /\ function_tuples' = sort_function_tuples(function_tuples)
    /\ builder_specs' = [p \in Pkgs |-> NoSpec]
    /\ pos' = 0
    /\ pc' = "dispatch"
    /\ UNCHANGED <<raised, spec_objects>>
    /\ UNCHANGED <<flag_sources, flag_compiler_defaults, cmd_flags, best_model>>
    /\ UNCHANGED <<postVars, extendVars>>
    /\ UNCHANGED buildFrame

\* build_specs, lines 1784-1794: the action of the next tuple
dispatch_node ==
    /\ pc = "dispatch"
    /\ pos < Len(function_tuples)
    /\ function_tuples[pos + 1].name = "node"
    /\ LET args == function_tuples[pos + 1].args
           r == node(builder_specs, spec_objects, args[1])
       IN  /\ builder_specs' = r.specs
           /\ spec_objects' = r.objects
    /\ pos' = pos + 1
    /\ UNCHANGED <<pc, raised, function_tuples>>
    /\ UNCHANGED <<flag_sources, flag_compiler_defaults, cmd_flags, best_model>>
    /\ UNCHANGED <<postVars, extendVars>>
    /\ UNCHANGED buildFrame

dispatch_depends_on ==
    /\ pc = "dispatch"
    /\ pos < Len(function_tuples)
    /\ function_tuples[pos + 1].name = "depends_on"
    /\ LET args == function_tuples[pos + 1].args
       IN  IF builder_specs[args[1]].id = 0 \/ builder_specs[args[2]].id = 0
           THEN \* self._specs[pkg] or self._specs[dep] is missing
                /\ raised' = "KeyError"
                /\ pc' = "raised"
                /\ UNCHANGED <<builder_specs, pos>>
           ELSE /\ builder_specs' =
                      depends_on(builder_specs, args[1], args[2], args[3])
                /\ pos' = pos + 1
                /\ UNCHANGED <<pc, raised>>
    /\ UNCHANGED <<function_tuples, spec_objects>>
    /\ UNCHANGED <<flag_sources, flag_compiler_defaults, cmd_flags, best_model>>
    /\ UNCHANGED <<postVars, extendVars>>
    /\ UNCHANGED buildFrame

\* build_specs, lines 1796-1821: all tuples are dispatched; the flags are
\* reordered, the specs completed and returned
return_specs ==
    /\ pc = "dispatch"
    /\ pos = Len(function_tuples)
    /\ \E r \in {reorder_flags(builder_specs, flag_compiler_defaults,
                                flag_sources, cmd_flags)} :
          /\ builder_specs' = r.specs
          /\ raised' = r.error
          /\ pc' = IF r.error = "none" THEN "done" ELSE "raised"
    /\ UNCHANGED <<function_tuples, pos, spec_objects>>
    /\ UNCHANGED <<flag_sources, flag_compiler_defaults, cmd_flags, best_model>>
    /\ UNCHANGED <<postVars, extendVars>>
    /\ UNCHANGED buildFrame

BuildNext ==
    \/ sort_tuples
    \/ dispatch_node
    \/ dispatch_depends_on
    \/ return_specs

BuildSpec == BuildInit /\ [][BuildNext]_vars

-----------------------------------------------------------------------------
(* SpecBuilder.build_specs on models with compilers *)

\* the atoms of these models: for each of two packages a node, its compiler
\* and the version of its compiler, and a dependency of a on b
CompilerPkgs == {"a", "b"}
CompilerModelAtoms ==
    {Atom("node", <<p>>) : p \in CompilerPkgs}
    \cup {Atom("node_compiler", <<p, "gcc">>) : p \in CompilerPkgs}
    \cup {Atom("node_compiler_version", <<p, "gcc", "4.5.0">>) :
             p \in CompilerPkgs}
    \cup {Atom("depends_on", <<"a", "b", "build">>)}

\* SpecBuilder.node_compiler: a new CompilerSpec of that name, of any version
node_compiler(sp, pkg, compiler) ==
    [sp EXCEPT ![pkg].compiler = [name |-> compiler, versions |-> ":"]]

\* SpecBuilder.node_compiler_version: the versions of the compiler the spec
\* has; the compiler argument is not looked at
node_compiler_version(sp, pkg, compiler, version) ==
    [sp EXCEPT ![pkg].compiler.versions = version]

CompilerBuildInit ==
    /\ pc = "build_specs"
    /\ raised = "none"
    /\ function_tuples \in SeqsUpTo(CompilerModelAtoms, MaxAtoms)
    /\ best_model = function_tuples
    /\ PostIdle
    /\ ExtendIdle
    /\ pos = 0
    /\ builder_specs = [p \in Pkgs |-> NoSpec]
    /\ spec_objects = 0
    /\ flag_sources = [p \in Pkgs |-> {}]
    /\ flag_compiler_defaults = {}
    /\ cmd_flags = [p \in Pkgs |-> NoFlags]
    /\ SolveIdle
    /\ SetupIdle
    /\ CmdIdle

\* build_specs, lines 1784-1794, for a node_compiler tuple
dispatch_node_compiler ==
    /\ pc = "dispatch"
    /\ pos < Len(function_tuples)
    /\ function_tuples[pos + 1].name = "node_compiler"
    /\ LET args == function_tuples[pos + 1].args
       IN  IF builder_specs[args[1]].id = 0
           THEN \* self._specs[pkg] is missing
                /\ raised' = "KeyError"
                /\ pc' = "raised"
                /\ UNCHANGED <<builder_specs, pos>>
           ELSE /\ builder_specs' =
                      node_compiler(builder_specs, args[1], args[2])
                /\ pos' = pos + 1
                /\ UNCHANGED <<pc, raised>>
    /\ UNCHANGED <<function_tuples, spec_objects>>
    /\ UNCHANGED <<flag_sources, flag_compiler_defaults, cmd_flags, best_model>>
    /\ UNCHANGED <<postVars, extendVars>>
    /\ UNCHANGED buildFrame

\* build_specs, lines 1784-1794, for a node_compiler_version tuple
dispatch_node_compiler_version ==
    /\ pc = "dispatch"
    /\ pos < Len(function_tuples)
    /\ function_tuples[pos + 1].name = "node_compiler_version"
    /\ LET args == function_tuples[pos + 1].args
       IN  IF builder_specs[args[1]].id = 0
           THEN \* self._specs[pkg] is missing
                /\ raised' = "KeyError"
                /\ pc' = "raised"
                /\ UNCHANGED <<builder_specs, pos>>
           ELSE IF builder_specs[args[1]].compiler.name = ""
           THEN \* self._specs[pkg].compiler is None
                /\ raised' = "AttributeError"
                /\ pc' = "raised"
                /\ UNCHANGED <<builder_specs, pos>>
           ELSE /\ builder_specs' =
                      node_compiler_version(builder_specs, args[1], args[2],
                                            args[3])
                /\ pos' = pos + 1
                /\ UNCHANGED <<pc, raised>>
    /\ UNCHANGED <<function_tuples, spec_objects>>
    /\ UNCHANGED <<flag_sources, flag_compiler_defaults, cmd_flags, best_model>>
    /\ UNCHANGED <<postVars, extendVars>>
    /\ UNCHANGED buildFrame

CompilerBuildNext ==
    \/ BuildNext
    \/ dispatch_node_compiler
    \/ dispatch_node_compiler_version

CompilerBuildSpec == CompilerBuildInit /\ [][CompilerBuildNext]_vars

-----------------------------------------------------------------------------
(* Claims about the order in which build_specs processes the atoms *)

\* the indexes of the atoms of a sequence that have a given sort key
IndexesWithKey(seq, k) == {i \in 1..Len(seq) : SortKey(seq[i]) = k}

\* the atoms of the model that build_specs has dispatched so far
Processed == SubSeq(function_tuples, 1, pos)

\* the packages an atom mentions
Mentioned(f) ==
    IF f.name = "depends_on" THEN {f.args[1], f.args[2]} ELSE {f.args[1]}

\* a model with a node atom for each package it mentions and a node_compiler
\* atom for each node_compiler_version atom
WellFormedModel(seq) ==
    /\ \A i \in 1..Len(seq) : \A p \in Mentioned(seq[i]) :
          \E j \in 1..Len(seq) : seq[j] = Atom("node", <<p>>)
    /\ \A i \in 1..Len(seq) :
          seq[i].name = "node_compiler_version" =>
              \E j \in 1..Len(seq) :
                 /\ seq[j].name = "node_compiler"
                 /\ seq[j].args[1] = seq[i].args[1]

\* C15: once build_specs has sorted the atoms, the atoms it processes are
\* those of the model with every node atom first, then every node_compiler
\* atom, then all the others, and inside each of the three groups the atoms
\* keep the order the model had; and for a model that has a node atom for each
\* package it mentions and a node_compiler atom for each
\* node_compiler_version atom, whatever its order, no handler fails on a spec
\* or a compiler that does not exist yet.
C15_NodesThenCompilersThenRest ==
    /\ pc # "build_specs" =>
          /\ Len(function_tuples) = Len(best_model)
          /\ \A i, j \in 1..Len(function_tuples) :
                i < j => SortKey(function_tuples[i]) <= SortKey(function_tuples[j])
          /\ \A k \in {-2, -1, 0} :
                WithKey(function_tuples, k) = WithKey(best_model, k)
    /\ WellFormedModel(best_model) =>
          raised \notin {"KeyError", "AttributeError"}

\* build_specs has finished on a well-formed model that the solver gave with
\* a compiler version before the compiler and the compiler before the node
C15_Witness ==
    /\ pc = "done"
    /\ WellFormedModel(best_model)
    /\ \E i, j, k \in 1..Len(best_model) :
          /\ i < j
          /\ j < k
          /\ best_model[i].name = "node_compiler_version"
          /\ best_model[j].name = "node_compiler"
          /\ best_model[k].name = "node"
          /\ best_model[i].args[1] = best_model[k].args[1]
          /\ best_model[j].args[1] = best_model[k].args[1]
    /\ \E p \in CompilerPkgs :
          builder_specs[p].compiler = [name |-> "gcc", versions |-> "4.5.0"]

-----------------------------------------------------------------------------
(* extend_flag_list *)

\* bound on the length of the two lists
MaxFlagLen == 3

\* the flags of the lists
ExtendFlags == {"-O2", "-g", "-fPIC"}

NoDuplicates(list) == \A i, j \in 1..Len(list) : i # j => list[i] # list[j]

ExtendInit ==
    /\ pc = "extend_flag_list"
    /\ raised = "none"
    /\ arg_flag_list \in {l \in SeqsUpTo(ExtendFlags, MaxFlagLen) :
                             NoDuplicates(l)}
    /\ arg_new_flags \in SeqsUpTo(ExtendFlags, MaxFlagLen)
    /\ old_flag_list = arg_flag_list
    /\ PostIdle
    /\ best_model = <<>>
    /\ function_tuples = <<>>
    /\ pos = 0
    /\ builder_specs = <<>>
    /\ spec_objects = 0
    /\ flag_sources = <<>>
    /\ flag_compiler_defaults = {}
    /\ cmd_flags = <<>>
    /\ SolveIdle
    /\ SetupIdle
    /\ CmdIdle

\* a call of extend_flag_list
extend_flag_list_call ==
    /\ pc = "extend_flag_list"
    /\ arg_flag_list' = extend_flag_list(arg_flag_list, arg_new_flags)
    /\ pc' = "extended"
    /\ UNCHANGED <<raised, arg_new_flags, old_flag_list, postVars>>
    /\ UNCHANGED <<best_model, function_tuples, pos, builder_specs,
                   spec_objects, flag_sources, flag_compiler_defaults,
                   cmd_flags>>
    /\ UNCHANGED buildFrame

ExtendNext == extend_flag_list_call

ExtendSpec == ExtendInit /\ [][ExtendNext]_vars

-----------------------------------------------------------------------------
(* Claims about extend_flag_list *)

\* the place of a flag in a list that holds it once
IndexOf(list, x) == CHOOSE i \in 1..Len(list) : list[i] = x

\* the last place of a flag in a list that holds it
LastPlace(list, x) ==
    CHOOSE i \in 1..Len(list) :
        list[i] = x /\ \A j \in (i + 1)..Len(list) : list[j] # x

\* C20: after extend_flag_list on a list without duplicates, the list has no
\* duplicates and holds exactly the flags of both lists; every flag of
\* new_flags comes after every flag that is not in new_flags; the flags of
\* new_flags are in the order of their last occurrences in new_flags; and the
\* flags that are not in new_flags are in the order they had.
C20_ExtendKeepsOrderAndPrecedence ==
    pc = "extended" =>
        LET new == Range(arg_new_flags)
        IN  /\ NoDuplicates(arg_flag_list)
            /\ Range(arg_flag_list) = Range(old_flag_list) \cup new
            /\ \A i, j \in 1..Len(arg_flag_list) :
                  /\ arg_flag_list[i] \in new
                  /\ arg_flag_list[j] \notin new
                  => j < i
            /\ \A x, y \in new :
                  LastPlace(arg_new_flags, x) < LastPlace(arg_new_flags, y)
                  => IndexOf(arg_flag_list, x) < IndexOf(arg_flag_list, y)
            /\ SelectSeq(arg_flag_list, LAMBDA x : x \notin new)
                  = SelectSeq(old_flag_list, LAMBDA x : x \notin new)

\* a flag of the list came again, twice, among the new flags and another
\* flag of the list did not
C20_Witness ==
    /\ pc = "extended"
    /\ Len(old_flag_list) = MaxFlagLen
    /\ old_flag_list[1] \in Range(arg_new_flags)
    /\ old_flag_list[2] \notin Range(arg_new_flags)
    /\ \E i, j \in 1..Len(arg_new_flags) :
          i < j /\ arg_new_flags[i] = arg_new_flags[j]
    /\ arg_flag_list # old_flag_list

-----------------------------------------------------------------------------
(* SpecBuilder.build_specs after the dispatch loop *)

\* the orders in which the dispatch loop can have created the specs
SpecOrders ==
    {o \in SeqsUpTo(Pkgs, Cardinality(Pkgs)) :
        \A i, j \in 1..Len(o) : i # j => o[i] # o[j]}

\* an entry of the log; the package of a step taken for all specs at once
PostEntry(step, pkg) == [step |-> step, pkg |-> pkg]
AllSpecs == "*"

\* the number of specs a loop has handled
Handled(step) == Len(SelectSeq(post_log, LAMBDA e : e.step = step))

\* one turn of a loop "for s in self._specs.values(): step(s)", and the
\* move to what follows the loop
loop_body(here, step) ==
    /\ pc = here
    /\ Handled(step) < Len(spec_order)
    /\ post_log' = Append(post_log,
                          PostEntry(step, spec_order[Handled(step) + 1]))
    /\ UNCHANGED pc

loop_exit(here, step, next) ==
    /\ pc = here
    /\ Handled(step) = Len(spec_order)
    /\ pc' = next
    /\ UNCHANGED post_log

PostInit ==
    /\ pc = "namespace"
    /\ raised = "none"
    /\ spec_order \in SpecOrders
    /\ deprecated \in SUBSET Range(spec_order)
    /\ post_log = <<>>
    /\ ExtendIdle
    /\ best_model = [i \in 1..Len(spec_order) |->
                        Atom("node", <<spec_order[i]>>)]
    /\ function_tuples = best_model
    /\ pos = Len(function_tuples)
    /\ builder_specs = [p \in Pkgs |->
          IF p \in Range(spec_order)
          THEN NewSpec(CHOOSE i \in 1..Len(spec_order) : spec_order[i] = p)
          ELSE NoSpec]
    /\ spec_objects = Len(spec_order)
    /\ flag_sources = [p \in Pkgs |-> {}]
    /\ flag_compiler_defaults = {}
    /\ cmd_flags = [p \in Pkgs |-> NoFlags]
    /\ SolveIdle
    /\ SetupIdle
    /\ CmdIdle

\* lines 1796-1800
assign_namespace ==
    /\ \/ loop_body("namespace", "namespace")
       \/ loop_exit("namespace", "namespace", "reorder_flags")
    /\ UNCHANGED <<raised, spec_order, deprecated, builder_specs>>
    /\ UNCHANGED <<best_model, function_tuples, pos, spec_objects,
                   flag_sources, flag_compiler_defaults, cmd_flags>>
    /\ UNCHANGED extendVars
    /\ UNCHANGED buildFrame

\* lines 1802-1803
reorder_flags_call ==
    /\ pc = "reorder_flags"
    /\ \E r \in {reorder_flags(builder_specs, flag_compiler_defaults,
                                flag_sources, cmd_flags)} :
          /\ builder_specs' = r.specs
          /\ raised' = r.error
          /\ pc' = IF r.error = "none" THEN "inject_patches_variant"
                   ELSE "raised"
    /\ post_log' = Append(post_log, PostEntry("reorder_flags", AllSpecs))
    /\ UNCHANGED <<spec_order, deprecated>>
    /\ UNCHANGED <<best_model, function_tuples, pos, spec_objects,
                   flag_sources, flag_compiler_defaults, cmd_flags>>
    /\ UNCHANGED extendVars
    /\ UNCHANGED buildFrame

\* lines 1805-1806
inject_patches_variant ==
    /\ \/ loop_body("inject_patches_variant", "inject_patches_variant")
       \/ loop_exit("inject_patches_variant", "inject_patches_variant",
                    "ensure_external_path_if_external")
    /\ UNCHANGED <<raised, spec_order, deprecated, builder_specs>>
    /\ UNCHANGED <<best_model, function_tuples, pos, spec_objects,
                   flag_sources, flag_compiler_defaults, cmd_flags>>
    /\ UNCHANGED extendVars
    /\ UNCHANGED buildFrame

\* lines 1808-1810
ensure_external_path_if_external ==
    /\ \/ loop_body("ensure_external_path_if_external",
                    "ensure_external_path_if_external")
       \/ loop_exit("ensure_external_path_if_external",
                    "ensure_external_path_if_external",
                    "develop_specs_from_env")
    /\ UNCHANGED <<raised, spec_order, deprecated, builder_specs>>
    /\ UNCHANGED <<best_model, function_tuples, pos, spec_objects,
                   flag_sources, flag_compiler_defaults, cmd_flags>>
    /\ UNCHANGED extendVars
    /\ UNCHANGED buildFrame

\* lines 1812-1813
develop_specs_from_env ==
    /\ \/ loop_body("develop_specs_from_env", "develop_specs_from_env")
       \/ loop_exit("develop_specs_from_env", "develop_specs_from_env",
                    "mark_concrete")
    /\ UNCHANGED <<raised, spec_order, deprecated, builder_specs>>
    /\ UNCHANGED <<best_model, function_tuples, pos, spec_objects,
                   flag_sources, flag_compiler_defaults, cmd_flags>>
    /\ UNCHANGED extendVars
    /\ UNCHANGED buildFrame

\* lines 1815-1816
mark_concrete ==
    /\ \/ loop_body("mark_concrete", "mark_concrete")
       \/ loop_exit("mark_concrete", "mark_concrete", "ensure_no_deprecated")
    /\ UNCHANGED <<raised, spec_order, deprecated, builder_specs>>
    /\ UNCHANGED <<best_model, function_tuples, pos, spec_objects,
                   flag_sources, flag_compiler_defaults, cmd_flags>>
    /\ UNCHANGED extendVars
    /\ UNCHANGED buildFrame

\* lines 1818-1821: the check raises for the first spec whose version is
\* deprecated; after the last spec the specs are returned
ensure_no_deprecated ==
    /\ pc = "ensure_no_deprecated"
    /\ LET n == Handled("ensure_no_deprecated")
       IN  IF n = Len(spec_order)
           THEN /\ pc' = "done"
                /\ UNCHANGED <<raised, post_log>>
           ELSE /\ post_log' = Append(post_log,
                      PostEntry("ensure_no_deprecated", spec_order[n + 1]))
                /\ IF spec_order[n + 1] \in deprecated
                   THEN /\ raised' = "SpecDeprecatedError"
                        /\ pc' = "raised"
                   ELSE UNCHANGED <<pc, raised>>
    /\ UNCHANGED <<spec_order, deprecated, builder_specs>>
    /\ UNCHANGED <<best_model, function_tuples, pos, spec_objects,
                   flag_sources, flag_compiler_defaults, cmd_flags>>
    /\ UNCHANGED extendVars
    /\ UNCHANGED buildFrame

PostNext ==
    \/ assign_namespace
    \/ reorder_flags_call
    \/ inject_patches_variant
    \/ ensure_external_path_if_external
    \/ develop_specs_from_env
    \/ mark_concrete
    \/ ensure_no_deprecated

PostSpec == PostInit /\ [][PostNext]_vars

-----------------------------------------------------------------------------
(* Claims about the post-construction steps of build_specs *)

\* the order of the steps in the specification
StepOrder ==
    <<"reorder_flags", "namespace", "inject_patches_variant",
      "ensure_external_path_if_external", "develop_specs_from_env",
      "mark_concrete", "ensure_no_deprecated">>

StepRank(step) == CHOOSE i \in 1..Len(StepOrder) : StepOrder[i] = step

\* the steps that change a spec
Modifying ==
    {"reorder_flags", "namespace", "inject_patches_variant",
     "ensure_external_path_if_external", "develop_specs_from_env"}

\* C16: the post-construction steps run in the order reorder flags,
\* namespace, patches, external prefix, dev-path, mark concrete, deprecation
\* check, each for all specs before the next starts, and no step changes a
\* spec that is already marked concrete.
C16_PostConstructionOrder ==
    /\ \A i, j \in 1..Len(post_log) :
          i < j => StepRank(post_log[i].step) <= StepRank(post_log[j].step)
    /\ \A i, j \in 1..Len(post_log) :
          /\ i < j
          /\ post_log[i].step = "mark_concrete"
          /\ post_log[j].pkg \in {post_log[i].pkg, AllSpecs}
          => post_log[j].step \notin Modifying

-----------------------------------------------------------------------------
(* Claims about SpecBuilder.build_specs *)

\* the packages that have a Spec
Built == {p \in Pkgs : builder_specs[p].id # 0}

\* C3: for any sequence of model atoms there is one Spec per package name: the
\* builder has created as many Spec objects as there are packages with a spec
\* (so a repeated node atom neither adds nor replaces one), and every
\* dependency edge points to the one Spec of the dependency's package.
C3_OneSpecPerPackage ==
    /\ spec_objects = Cardinality(Built)
    /\ \A p \in Built : \A q \in Built \ {p} :
          builder_specs[p].id # builder_specs[q].id
    /\ \A p \in Built : \A d \in Pkgs :
          builder_specs[p].deps[d].target # 0 =>
              /\ d \in Built
              /\ builder_specs[p].deps[d].target = builder_specs[d].id

\* a model with a repeated node atom was built, and a package there has an
\* edge to the package of the repeated atom
C3_Witness ==
    /\ pc = "done"
    /\ \E i, j \in 1..Len(function_tuples) :
          /\ i < j
          /\ function_tuples[i].name = "node"
          /\ function_tuples[i] = function_tuples[j]
          /\ \E p \in Built :
                builder_specs[p].deps[function_tuples[i].args[1]].target # 0

\* the types of the depends_on atoms dispatched so far for a pair
TypesDispatched(pkg, dep) ==
    {function_tuples[i].args[3] : i \in
        {j \in 1..pos :
            /\ function_tuples[j].name = "depends_on"
            /\ function_tuples[j].args[1] = pkg
            /\ function_tuples[j].args[2] = dep}}

\* C21: whatever depends_on atoms have been dispatched, in whatever order and
\* however often, a pair (pkg, dep) has an edge exactly when an atom of the
\* pair was dispatched; the edge is the one edge of the pair, it points to
\* the Spec of dep, and its types are exactly the types dispatched for the
\* pair; every other pair has no edge.
C21_OneEdgeWithMergedTypes ==
    \A p \in Pkgs : \A d \in Pkgs :
        IF TypesDispatched(p, d) = {}
        THEN builder_specs[p].deps[d] = NoEdge
        ELSE /\ builder_specs[p].deps[d].target = builder_specs[d].id
             /\ builder_specs[p].deps[d].target # 0
             /\ builder_specs[p].deps[d].types = TypesDispatched(p, d)

\* a model was built in which a pair came with both types and one of its
\* atoms came twice
C21_Witness ==
    /\ pc = "done"
    /\ \E p, d \in Pkgs :
          /\ builder_specs[p].deps[d].types = DepTypes
          /\ \E i, j \in 1..Len(function_tuples) :
                /\ i < j
                /\ function_tuples[i] = function_tuples[j]
                /\ function_tuples[i].name = "depends_on"
                /\ function_tuples[i].args[1] = p
                /\ function_tuples[i].args[2] = d

-----------------------------------------------------------------------------
(* SpecBuilder.reorder_flags, on the builder's state after the dispatch *)

\* bound on the number of flags of a category on a command-line spec
MaxFlags == 2

\* the flags of each category, and the flag lists of a command-line spec
FlagsOf(k) == IF k = "cflags" THEN {"-O2", "-g"} ELSE {"-lm"}
CmdFlagLists(k) ==
    IF k = "cflags" THEN SeqsUpTo(FlagsOf(k), MaxFlags)
    ELSE SeqsUpTo(FlagsOf(k), 1)

\* the lists a node's flags can be: the node_flag atoms of a category, in any
\* order
NodeFlagLists(k) ==
    {l \in SeqsUpTo(FlagsOf(k), Cardinality(FlagsOf(k))) :
        \A i, j \in 1..Len(l) : i # j => l[i] # l[j]}

\* the node whose flags are ordered, and the sets of edges (dependent,
\* dependency) among it and its ancestors: its name is not compared with any
\* other in the traversal, so one choice of it stands for all
FlagNode == "b"
DagEdgeSets ==
    {es \in SUBSET {<<"a", "b">>, <<"c", "b">>, <<"a", "c">>, <<"c", "a">>} :
        ~({<<"a", "c">>, <<"c", "a">>} \subseteq es)}

\* the specs of a DAG: every package has its Spec, with the given edges
DagSpecs(es) ==
    [p \in Pkgs |->
        LET id == CHOOSE i \in 1..Len(PkgOrder) : PkgOrder[i] = p
        IN  [id |-> id,
             deps |-> [d \in Pkgs |->
                 IF <<p, d>> \in es
                 THEN [target |-> CHOOSE i \in 1..Len(PkgOrder) :
                                      PkgOrder[i] = d,
                       types |-> {"build"}]
                 ELSE NoEdge],
             compiler |-> [name |-> "", versions |-> ""],
             compiler_flags |-> NoFlags]]

\* the ancestors of a package in a DAG of three packages
AncestorsOf(sp, x) ==
    Parents(sp, x) \cup UNION {Parents(sp, p) : p \in Parents(sp, x)}

\* the compiler_flags maps of a command-line spec
CmdFlagMaps ==
    {[k \in FlagTypes |-> IF k = "cflags" THEN c ELSE l] :
        c \in CmdFlagLists("cflags"), l \in CmdFlagLists("ldflags")}

\* the compiler_flags a node can have after the dispatch, for the flags its
\* node_flag atoms should carry: those flags in any order, or no flag at all
NodeFlagMaps(want) ==
    {NoFlags} \cup
    {[k \in FlagTypes |-> IF k = "cflags" THEN c ELSE l] :
        c \in {x \in NodeFlagLists("cflags") :
                  Range(x) = Range(want["cflags"])},
        l \in {x \in NodeFlagLists("ldflags") :
                  Range(x) = Range(want["ldflags"])}}

\* all flags of the sources of a category, in some order
SourceFlags(f, srcs) ==
    [k \in FlagTypes |->
        merge_sources(<<>>, SelectSeq(PkgOrder, LAMBDA p : p \in srcs), f, k)]

\* The builder after the dispatch of a model: a DAG and the node of it that
\* either has flag sources among itself and its ancestors, with the flags of
\* the sources on the command line, or takes the flags of its compiler; and
\* the node's node_flag atoms.
FlagInit ==
    /\ pc = "reorder_flags"
    /\ raised = "none"
    /\ best_model = <<>>
    /\ PostIdle
    /\ ExtendIdle
    /\ function_tuples = <<>>
    /\ pos = 0
    /\ spec_objects = Cardinality(Pkgs)
    /\ \E es \in DagEdgeSets, n \in {FlagNode} :
          \E srcs \in SUBSET (AncestorsOf(DagSpecs(es), n) \cup {n}) :
             /\ flag_sources = [p \in Pkgs |-> IF p = n THEN srcs ELSE {}]
             /\ flag_compiler_defaults \in
                   (IF srcs = {} THEN {{}, {n}} ELSE {{}})
             /\ \E f \in [srcs -> CmdFlagMaps] :
                   /\ cmd_flags =
                         [p \in Pkgs |-> IF p \in srcs THEN f[p] ELSE NoFlags]
                   /\ \E nf \in NodeFlagMaps(
                                   IF srcs = {} THEN CompilerFlags
                                   ELSE SourceFlags(f, srcs)) :
                         builder_specs =
                            [DagSpecs(es) EXCEPT ![n].compiler_flags = nf]
    /\ SolveIdle
    /\ SetupIdle
    /\ CmdIdle

\* SpecBuilder.reorder_flags
reorder_flags_step ==
    /\ pc = "reorder_flags"
    /\ \E r \in {reorder_flags(builder_specs, flag_compiler_defaults,
                                flag_sources, cmd_flags)} :
          /\ builder_specs' = r.specs
          /\ raised' = r.error
          /\ pc' = IF r.error = "none" THEN "done" ELSE "raised"
    /\ UNCHANGED <<function_tuples, pos, spec_objects, flag_sources,
                   flag_compiler_defaults, cmd_flags, best_model>>
    /\ UNCHANGED <<postVars, extendVars>>
    /\ UNCHANGED buildFrame

FlagNext == reorder_flags_step

FlagSpec == FlagInit /\ [][FlagNext]_vars

-----------------------------------------------------------------------------
(* Claims about SpecBuilder.reorder_flags *)

\* the orders in which a set of sources can be visited so that no source comes
\* before one of its ancestors
DagOrders(srcs) ==
    {o \in [1..Cardinality(srcs) -> srcs] :
        /\ \A i, j \in 1..Len(o) : i # j => o[i] # o[j]
        /\ \A i, j \in 1..Len(o) :
              i < j => o[j] \notin AncestorsOf(builder_specs, o[i])}

\* the command-line flags of a category of the sources, one source after the
\* other
RECURSIVE FlagsInOrder(_, _)
FlagsInOrder(o, k) ==
    IF o = <<>> THEN <<>>
    ELSE cmd_flags[Head(o)][k] \o FlagsInOrder(Tail(o), k)

LastIndex(list, x) ==
    CHOOSE i \in 1..Len(list) :
        list[i] = x /\ \A j \in (i + 1)..Len(list) : list[j] # x

\* `final` holds every flag of `given` once, in the order of the last
\* occurrences in `given`
KeepsLastOccurrences(final, given) ==
    /\ Range(final) = Range(given)
    /\ \A i, j \in 1..Len(final) : i # j => final[i] # final[j]
    /\ \A i, j \in 1..Len(final) :
          i < j => LastIndex(given, final[i]) < LastIndex(given, final[j])

\* C9: after reorder_flags, the flags of each category of a node with flag
\* sources are the command-line flags of its sources, visited ancestors before
\* descendants with the node last, each flag kept once at its last occurrence;
\* so a flag given on the node comes after every flag given on ancestors only.
C9_FlagsFollowDagOrder ==
    (pc = "done" /\ flag_sources # <<>>) =>
        \A n \in {p \in Pkgs : flag_sources[p] # {}} : \A k \in FlagTypes :
            LET final == builder_specs[n].compiler_flags[k]
            IN  /\ \E o \in DagOrders(flag_sources[n]) :
                      KeepsLastOccurrences(final, FlagsInOrder(o, k))
                /\ n \in flag_sources[n] =>
                      \A i \in 1..Len(final) :
                          final[i] \in Range(cmd_flags[n][k]) =>
                              /\ \A j \in 1..Len(final) :
                                    final[j] = final[i] => j = i
                              /\ \A j \in 1..Len(final) :
                                    final[j] \notin Range(cmd_flags[n][k])
                                        => j < i

\* the flags of a node were ordered that has a flag in common with an
\* ancestor, which also gives a flag the node does not give
C9_Witness ==
    /\ pc = "done"
    /\ flag_sources # <<>>
    /\ FlagNode \in flag_sources[FlagNode]
    /\ \E a \in flag_sources[FlagNode] \ {FlagNode} :
          /\ a \in AncestorsOf(builder_specs, FlagNode)
          /\ Range(cmd_flags[a]["cflags"])
                \cap Range(cmd_flags[FlagNode]["cflags"]) # {}
          /\ Range(cmd_flags[a]["cflags"])
                \ Range(cmd_flags[FlagNode]["cflags"]) # {}

-----------------------------------------------------------------------------
(* What SpackSolverSetup gives to its generator *)

\* self.gen.fact(head) and self.gen.rule(head, body)
Fact(head) == [kind |-> "fact", head |-> head, body |-> <<>>]
Rule(head, body) == [kind |-> "rule", head |-> head, body |-> body]

-----------------------------------------------------------------------------
(* SpackSolverSetup.build_version_dict and pkg_version_rules, for one      *)
(* package                                                                 *)

\* bound on the numbered versions of the package
MaxVersion == 2

\* Versions are named by their place in the version order; the place above
\* every numbered version is that of develop.
Versions == 1..(MaxVersion + 1)
isdevelop(v) == v = MaxVersion + 1

\* a version of the package is not declared, declared, or declared with
\* preferred=True
VersionDecls == {"absent", "declared", "preferred"}

\* the "version" lists of packages.yaml: versions, none of them twice
VersionPrefs ==
    {l \in SeqsUpTo(Versions, Cardinality(Versions)) :
        \A i, j \in 1..Len(l) : i # j => l[i] # l[j]}

\* dict((v, i) for i, v in enumerate(version_prefs)).get(v, 0)
priority_get(prefs, v) ==
    IF \E i \in 1..Len(prefs) : prefs[i] = v
    THEN (CHOOSE i \in 1..Len(prefs) : prefs[i] = v) - 1
    ELSE 0

\* pkg.versions.get(v, {}).get('preferred', False)
preferred_get(decls, v) == decls[v] = "preferred"

Bool2Int(b) == IF b THEN 1 ELSE 0

\* the sort key of a version, a tuple Python compares item by item
keyfn_DevelopFirst(prefs, decls, v) ==
    <<0 - priority_get(prefs, v), Bool2Int(preferred_get(decls, v)), 1, v>>

keyfn(prefs, decls, v) ==
    <<0 - priority_get(prefs, v),
      Bool2Int(preferred_get(decls, v)),
      Bool2Int(~isdevelop(v)),
      v>>

\* sorted(possible_versions, key=keyfn, reverse=True): the keys of two
\* versions differ, so the order of the set does not matter
RECURSIVE most_to_least_preferred(_, _, _)
most_to_least_preferred(S, prefs, decls) ==
    IF S = {} THEN <<>>
    ELSE LET top == CHOOSE v \in S : \A w \in S \ {v} :
                        ListLess(keyfn(prefs, decls, w), keyfn(prefs, decls, v))
         IN  <<top>> \o most_to_least_preferred(S \ {top}, prefs, decls)

VersionInit ==
    /\ pc = "build_version_dict"
    /\ raised = "none"
    /\ pkg_versions \in [Versions -> VersionDecls]
    /\ input_versions \in SUBSET Versions
    /\ version_prefs \in VersionPrefs
    /\ possible_versions = {}
    /\ ConfigIdle
    /\ TargetIdle
    /\ emitted = <<>>
    /\ DepIdle
    /\ RecordIdle
    /\ ConflictIdle
    /\ RunIdle
    /\ DriverIdle
    /\ SolveIdle
    /\ BuildIdle
    /\ CmdIdle

\* SpackSolverSetup.build_version_dict
build_version_dict ==
    /\ pc = "build_version_dict"
    /\ possible_versions' =
          {v \in Versions : pkg_versions[v] # "absent"} \cup input_versions
    /\ pc' = "pkg_version_rules"
    /\ UNCHANGED <<raised, pkg_versions, input_versions, version_prefs,
                   emitted, configVars, targetVars>>
    /\ UNCHANGED <<depVars, recordVars, conflictVars, runVars, driverVars>>
    /\ UNCHANGED setupFrame

\* SpackSolverSetup.pkg_version_rules
pkg_version_rules ==
    /\ pc = "pkg_version_rules"
    /\ LET order == most_to_least_preferred(possible_versions, version_prefs,
                                            pkg_versions)
       IN  emitted' = emitted \o
              [i \in 1..Len(order) |->
                  Fact(Atom("version_declared", <<order[i], i - 1>>))]
    /\ pc' = "versions_done"
    /\ UNCHANGED <<raised, pkg_versions, input_versions, version_prefs,
                   possible_versions, configVars, targetVars>>
    /\ UNCHANGED <<depVars, recordVars, conflictVars, runVars, driverVars>>
    /\ UNCHANGED setupFrame

VersionNext ==
    \/ build_version_dict
    \/ pkg_version_rules

VersionSpec == VersionInit /\ [][VersionNext]_vars

-----------------------------------------------------------------------------
(* Claims about pkg_version_rules *)

\* the ranks that the emitted version_declared facts give a version
RanksOf(v) ==
    {emitted[i].head.args[2] : i \in {j \in 1..Len(emitted) :
        /\ emitted[j].head.name = "version_declared"
        /\ emitted[j].head.args[1] = v}}

Listed(v) == \E i \in 1..Len(version_prefs) : version_prefs[i] = v

ListedBefore(v, w) ==
    \E i, j \in 1..Len(version_prefs) :
        i < j /\ version_prefs[i] = v /\ version_prefs[j] = w

\* C7: a version listed earlier in the packages configuration gets a lower
\* rank than one listed later, and a listed version gets a lower rank than
\* every version that is not listed.
C7_UserOrderWins ==
    pc = "versions_done" =>
        \A v, w \in possible_versions :
            (ListedBefore(v, w) \/ (Listed(v) /\ ~Listed(w))) =>
                \A i \in RanksOf(v), j \in RanksOf(w) : i < j

\* C8: every possible version (declared, or concrete in an input spec) gets
\* one version_declared fact, the ranks are exactly 0..n-1, and with no
\* listed preference a preferred version ranks better than a non-preferred
\* one, then a non-develop version better than develop, then a higher version
\* better than a lower one.
C8_RanksOfPossibleVersions ==
    pc = "versions_done" =>
        LET n == Cardinality(possible_versions)
            pref(v) == pkg_versions[v] = "preferred"
        IN  /\ possible_versions =
                  {v \in Versions : pkg_versions[v] # "absent"}
                      \cup input_versions
            /\ Len(emitted) = n
            /\ \A v \in possible_versions :
                  Cardinality({i \in 1..Len(emitted) :
                                  emitted[i].head.args[1] = v}) = 1
            /\ {emitted[i].head.args[2] : i \in 1..Len(emitted)} = 0..(n - 1)
            /\ version_prefs = <<>> =>
                  \A v, w \in possible_versions :
                      (\/ pref(v) /\ ~pref(w)
                       \/ pref(v) = pref(w) /\ ~isdevelop(v) /\ isdevelop(w)
                       \/ /\ pref(v) = pref(w)
                          /\ isdevelop(v) = isdevelop(w)
                          /\ v > w) =>
                          \A i \in RanksOf(v), j \in RanksOf(w) : i < j

\* no preference is listed; develop, a preferred version and a version that
\* only an input spec names were ranked
C8_Witness ==
    /\ pc = "versions_done"
    /\ version_prefs = <<>>
    /\ \E d, p, u \in possible_versions :
          /\ isdevelop(d) /\ pkg_versions[d] = "declared"
          /\ pkg_versions[p] = "preferred"
          /\ pkg_versions[u] = "absent"
    /\ Len(emitted) = Cardinality(possible_versions)

-----------------------------------------------------------------------------
(* SpackSolverSetup.package_dependencies_rules *)

\* bound on the number of (name, condition) entries of pkg.dependencies
MaxDeps == 2

\* the packages with dependencies, and what they depend on; mpi is virtual
DepPkgs == {"a", "b"}
DepNames == {"c", "mpi"}
is_virtual(name) == name = "mpi"

\* the values of dep.type in the model, and the order sorted() gives types
DepTypeSets == {{"build"}, {"test"}, {"build", "link"}, {"build", "test"},
                {"link", "run", "test"}}
SortedTypes == <<"build", "link", "run", "test">>

\* an entry of pkg.dependencies: the dependency, whether its condition is
\* the empty Spec() or the variant +opt of the package, and its types
DepEntries == [dep : DepNames, conditional : BOOLEAN, types : DepTypeSets]

\* pkg.dependencies as the two sorted() loops go through it: by name, a
\* (name, condition) pair once
DependencyLists ==
    {l \in SeqsUpTo(DepEntries, MaxDeps) :
        \A i, j \in 1..Len(l) : i < j =>
            /\ l[i].dep = l[j].dep => l[i].conditional # l[j].conditional
            /\ l[i].dep # l[j].dep => l[i].dep = "c"}

\* the tests argument: a bool, or a collection of package names
TestsValues ==
    [is_bool : {TRUE}, value : BOOLEAN, names : {{}}]
    \cup [is_bool : {FALSE}, value : {FALSE}, names : SUBSET DepPkgs]

\* Python's truth value of tests
truthy(t) == IF t.is_bool THEN t.value ELSE t.names # {}

\* the two conditions under which a dependency type is skipped
skip_type_IgnoringNames(t, tsts, pkg) == t = "test" /\ ~truthy(tsts)

skip_type(t, tsts, pkg) ==
    \/ t = "test" /\ ~truthy(tsts)
    \/ t = "test" /\ (~tsts.is_bool /\ pkg \notin tsts.names)

\* spec_traverse_clauses(named_cond) and spec_clauses(named_cond, body=True)
\* for the condition +opt of the package
cond_clauses(pkg) ==
    <<Atom("node", <<pkg>>), Atom("variant_value", <<pkg, "opt", "True">>)>>

\* the declared_dependency facts and rules of one entry
declared_dependencies(pkg, tsts, e) ==
    LET ts == SelectSeq(SortedTypes,
                  LAMBDA t : t \in e.types /\ ~skip_type(t, tsts, pkg))
    IN  [i \in 1..Len(ts) |->
            IF ~e.conditional
            THEN Fact(Atom("declared_dependency", <<pkg, e.dep, ts[i]>>))
            ELSE Rule(Atom("declared_dependency", <<pkg, e.dep, ts[i]>>),
                      cond_clauses(pkg))]

\* the constraints on the dependency from the dep spec of one entry
dependency_constraints(pkg, e) ==
    IF is_virtual(e.dep)
    THEN <<Rule(Atom("single_provider_for", <<e.dep, ":">>),
                <<Atom("real_node", <<pkg>>)>> \o
                    (IF e.conditional THEN cond_clauses(pkg)
                     ELSE <<Atom("node", <<pkg>>)>>))>>
    ELSE <<Rule(Atom("node", <<e.dep>>),
                <<Atom("depends_on", <<pkg, e.dep>>)>> \o
                    (IF e.conditional THEN cond_clauses(pkg)
                     ELSE <<Atom("node", <<pkg>>)>>))>>

\* everything package_dependencies_rules emits for a list of entries
RECURSIVE dependency_rules(_, _, _)
dependency_rules(pkg, tsts, deps) ==
    IF deps = <<>> THEN <<>>
    ELSE declared_dependencies(pkg, tsts, Head(deps))
            \o dependency_constraints(pkg, Head(deps))
            \o dependency_rules(pkg, tsts, Tail(deps))

DepInit ==
    /\ pc = "package_dependencies_rules"
    /\ raised = "none"
    /\ pkg_name \in DepPkgs
    /\ tests \in TestsValues
    /\ dependencies \in DependencyLists
    /\ RecordIdle
    /\ emitted = <<>>
    /\ VersionIdle
    /\ ConflictIdle
    /\ RunIdle
    /\ DriverIdle
    /\ SolveIdle
    /\ BuildIdle
    /\ CmdIdle

\* SpackSolverSetup.package_dependencies_rules
package_dependencies_rules ==
    /\ pc = "package_dependencies_rules"
    /\ emitted' = emitted \o dependency_rules(pkg_name, tests, dependencies)
    /\ virtual_constraints' = virtual_constraints \cup
          {dependencies[i].dep : i \in {j \in 1..Len(dependencies) :
              is_virtual(dependencies[j].dep)}}
    /\ pc' = "deps_done"
    /\ UNCHANGED <<raised, pkg_name, tests, dependencies>>
    /\ UNCHANGED <<version_constraints, compiler_version_constraints,
                   target_constraints, defined_log>>
    /\ UNCHANGED <<versionVars, conflictVars, runVars, driverVars>>
    /\ UNCHANGED setupFrame

DepNext == package_dependencies_rules

DepSpec == DepInit /\ [][DepNext]_vars

-----------------------------------------------------------------------------
(* Claims about package_dependencies_rules *)

IsDeclaredDependency(x, types) ==
    x.head.name = "declared_dependency" /\ x.head.args[3] \in types

\* C5: a test-type declared_dependency is emitted only when tests is True or
\* is a collection that holds the package's name, and the build, link and run
\* declared_dependency facts and rules are those emitted under every other
\* value of tests.
C5_TestDependenciesOnRequest ==
    pc = "deps_done" =>
        /\ (\E i \in 1..Len(emitted) :
                IsDeclaredDependency(emitted[i], {"test"}))
              => \/ tests.is_bool /\ tests.value
                 \/ ~tests.is_bool /\ pkg_name \in tests.names
        /\ \A t \in TestsValues :
              SelectSeq(emitted,
                  LAMBDA x : IsDeclaredDependency(x, {"build", "link", "run"}))
              = SelectSeq(dependency_rules(pkg_name, t, dependencies),
                  LAMBDA x : IsDeclaredDependency(x, {"build", "link", "run"}))

\* tests names the package but not the other one, and the package's test
\* dependency was declared next to a build dependency
C5_Witness ==
    /\ pc = "deps_done"
    /\ ~tests.is_bool
    /\ tests.names = {pkg_name}
    /\ \E i, j \in 1..Len(emitted) :
          /\ IsDeclaredDependency(emitted[i], {"test"})
          /\ IsDeclaredDependency(emitted[j], {"build"})

\* the entries whose only type is test, when the test type is skipped
SkippedEntry(e) ==
    e.types = {"test"} /\ skip_type("test", tests, pkg_name)

\* C28: package_dependencies_rules emits nothing for an entry whose only type
\* is test when test dependencies are skipped for the package: what it emits
\* is what it emits for the other entries alone.
C28_SkippedTestClauseEmitsNothing ==
    pc = "deps_done" =>
        emitted = dependency_rules(pkg_name, tests,
                     SelectSeq(dependencies, LAMBDA e : ~SkippedEntry(e)))

-----------------------------------------------------------------------------
(* SpackSolverSetup.spec_clauses, on abstract specs without dependencies *)

\* versions of a spec: any, one version, a range; compiler of a spec: none,
\* a concrete one, one with a version range
SpecVersions == {":", "1.0", "1:", "2:", "4:"}
NoCompiler == [name |-> "", versions |-> ""]
SpecCompilers == {NoCompiler, [name |-> "gcc", versions |-> "4.5.0"],
                  [name |-> "gcc", versions |-> "4:"],
                  [name |-> "gcc", versions |-> "5:"]}
compiler_concrete(c) == c.versions = "4.5.0"

AbstractSpecs ==
    [name : {"", "a", "b"}, versions : SpecVersions, variant : {"", "+opt"},
     compiler : SpecCompilers]

\* Spec(name)
NamedSpec(name) ==
    [name |-> name, versions |-> ":", variant |-> "", compiler |-> NoCompiler]

\* Spec.constrain, for a constraint that names nothing the spec has set
constrain(spec, other) ==
    [name |-> spec.name,
     versions |-> IF other.versions # ":" THEN other.versions
                  ELSE spec.versions,
     variant |-> IF other.variant # "" THEN other.variant ELSE spec.variant,
     compiler |-> IF other.compiler # NoCompiler THEN other.compiler
                  ELSE spec.compiler]

\* SpackSolverSetup.spec_versions of a spec that is not concrete
spec_versions(spec) ==
    IF spec.versions = ":" THEN <<>>
    ELSE <<Atom("version_satisfies", <<spec.name, spec.versions>>)>>

\* SpackSolverSetup.spec_clauses: head form (setters) or body form
spec_clauses(spec, body) ==
    <<Atom("node", <<spec.name>>)>>
    \o spec_versions(spec)
    \o (IF spec.variant = "" THEN <<>>
        ELSE <<Atom(IF body THEN "variant_value" ELSE "variant_set",
                    <<spec.name, "opt", "True">>)>>)
    \o (IF spec.compiler = NoCompiler THEN <<>>
        ELSE <<Atom(IF body THEN "node_compiler" ELSE "node_compiler_hard",
                    <<spec.name, spec.compiler.name>>)>>
             \o (IF compiler_concrete(spec.compiler)
                 THEN <<Atom(IF body THEN "node_compiler_version"
                             ELSE "node_compiler_version_hard",
                             <<spec.name, spec.compiler.name,
                               spec.compiler.versions>>)>>
                 ELSE <<Atom("node_compiler_version_satisfies",
                             <<spec.name, spec.compiler.name,
                               spec.compiler.versions>>)>>))

\* what spec_clauses records for the define_* phases
recorded_versions(spec) ==
    IF spec.versions = ":" THEN {} ELSE {<<spec.name, spec.versions>>}
recorded_compilers(spec) ==
    IF spec.compiler = NoCompiler \/ compiler_concrete(spec.compiler) THEN {}
    ELSE {<<spec.name, spec.compiler>>}

-----------------------------------------------------------------------------
(* SpackSolverSetup.conflict_rules and PyclingoDriver.integrity_constraint *)

\* bound on the number of conflicts of the package
MaxConflicts == 2

ConflictPkg == "a"

\* a conflict: its trigger (the when= spec) and the conflicting constraint
ConflictTriggers == {s \in AbstractSpecs :
    s.name = "" /\ s.versions = ":" /\ s.compiler = NoCompiler}
ConflictConstraints == {s \in AbstractSpecs :
    /\ s.name = "" /\ s.variant = ""
    /\ s.versions \in {":", "2:"}
    /\ s.compiler.versions # "5:"
    /\ s.versions # ":" \/ s.compiler # NoCompiler}
ConflictEntries == [trigger : ConflictTriggers,
                    constraint : ConflictConstraints]

\* the rule atom _register_rule_for_cores adds for a rule string
rule_atoms(cores_on, body, negated) ==
    IF cores_on THEN <<[name |-> "rule", body |-> body, negated |-> negated]>>
    ELSE <<>>

\* PyclingoDriver.integrity_constraint
integrity_constraint(cores_on, body, negated) ==
    [kind |-> "integrity_constraint", body |-> body, negated |-> negated,
     rule_atoms |-> rule_atoms(cores_on, body, negated)]

constraint_body(pkg, cf) ==
    constrain(constrain(NamedSpec(pkg), cf.constraint), cf.trigger)

\* the integrity constraint conflict_rules emits for one conflict
conflict_rule_NotExternal(cores_on, pkg, cf) ==
    integrity_constraint(cores_on,
        SelectSeq(spec_clauses(constraint_body(pkg, cf), TRUE),
                  LAMBDA x : x.name # "node_compiler_hard"),
        <<>>)

conflict_rule(cores_on, pkg, cf) ==
    integrity_constraint(cores_on,
        SelectSeq(spec_clauses(constraint_body(pkg, cf), TRUE),
                  LAMBDA x : x.name # "node_compiler_hard"),
        <<Atom("external", <<pkg>>)>>)

\* the atoms a candidate answer set can hold about the package
ConflictAtoms ==
    {Atom("node", <<ConflictPkg>>), Atom("external", <<ConflictPkg>>),
     Atom("version_satisfies", <<ConflictPkg, "2:">>),
     Atom("variant_value", <<ConflictPkg, "opt", "True">>),
     Atom("node_compiler", <<ConflictPkg, "gcc">>),
     Atom("node_compiler_version", <<ConflictPkg, "gcc", "4.5.0">>),
     Atom("node_compiler_version_satisfies", <<ConflictPkg, "gcc", "4:">>)}

\* backend.add_rule([], literals): the candidate is ruled out when every
\* positive literal is true in it and every negated one is not; the rule
\* atoms are true, they are among the assumptions of the solve
violates(cand, c) ==
    /\ \A i \in 1..Len(c.body) : c.body[i] \in cand
    /\ \A i \in 1..Len(c.negated) : c.negated[i] \notin cand

ConflictInit ==
    /\ pc = "conflict_rules"
    /\ raised = "none"
    /\ pkg_name = ConflictPkg
    /\ tests = <<>>
    /\ dependencies = <<>>
    /\ conflicts \in SeqsUpTo(ConflictEntries, MaxConflicts)
    /\ gen_cores \in BOOLEAN
    /\ candidate = {}
    /\ rejected = FALSE
    /\ emitted = <<>>
    /\ RecordIdle
    /\ VersionIdle
    /\ RunIdle
    /\ DriverIdle
    /\ SolveIdle
    /\ BuildIdle
    /\ CmdIdle

\* SpackSolverSetup.conflict_rules
conflict_rules ==
    /\ pc = "conflict_rules"
    /\ emitted' = emitted \o
          [i \in 1..Len(conflicts) |->
              conflict_rule(gen_cores, pkg_name, conflicts[i])]
    /\ version_constraints' = version_constraints \cup
          UNION {recorded_versions(constraint_body(pkg_name, conflicts[i])) :
                    i \in 1..Len(conflicts)}
    /\ compiler_version_constraints' = compiler_version_constraints \cup
          UNION {recorded_compilers(constraint_body(pkg_name, conflicts[i])) :
                    i \in 1..Len(conflicts)}
    /\ pc' = "conflicts_done"
    /\ UNCHANGED <<raised, virtual_constraints, target_constraints,
                   defined_log, conflicts, gen_cores,
                   candidate, rejected>>
    /\ UNCHANGED <<versionVars, depVars, runVars, driverVars>>
    /\ UNCHANGED setupFrame

\* the solver meets a candidate answer set
check_candidate ==
    /\ pc = "conflicts_done"
    /\ \E cand \in SUBSET ConflictAtoms :
          /\ candidate' = cand
          /\ rejected' = \E i \in 1..Len(emitted) : violates(cand, emitted[i])
    /\ pc' = "candidate_checked"
    /\ UNCHANGED <<raised, conflicts, gen_cores, emitted>>
    /\ UNCHANGED <<versionVars, depVars, recordVars, runVars, driverVars>>
    /\ UNCHANGED setupFrame

ConflictNext ==
    \/ conflict_rules
    \/ check_candidate

ConflictSpec == ConflictInit /\ [][ConflictNext]_vars

-----------------------------------------------------------------------------
(* Claims about conflict_rules *)

\* the body-form atoms of the package's node under a conflict: those of its
\* constraint and of its trigger
ConflictClauses(pkg, cf) ==
    {Atom("node", <<pkg>>)}
    \cup {Atom("version_satisfies", <<pkg, v>>) :
             v \in {cf.constraint.versions} \ {":"}}
    \cup {Atom("variant_value", <<pkg, "opt", "True">>) :
             x \in {cf.trigger.variant} \ {""}}
    \cup {Atom("node_compiler", <<pkg, c.name>>) :
             c \in {cf.constraint.compiler} \ {NoCompiler}}
    \cup {Atom(IF compiler_concrete(c) THEN "node_compiler_version"
               ELSE "node_compiler_version_satisfies",
               <<pkg, c.name, c.versions>>) :
             c \in {cf.constraint.compiler} \ {NoCompiler}}

\* C6: each conflict gets one integrity constraint: its positive body is the
\* body-form clauses of the node under the constraint and the trigger, with
\* no node_compiler_hard, its only negated literal is external(pkg); so a
\* candidate that satisfies the clauses of a conflict is ruled out exactly
\* when the package is not external in it.
C6_ConflictsSpareExternals ==
    pc \in {"conflicts_done", "candidate_checked"} =>
        /\ Len(emitted) = Len(conflicts)
        /\ \A i \in 1..Len(emitted) :
              /\ emitted[i].kind = "integrity_constraint"
              /\ Range(emitted[i].body) =
                    ConflictClauses(pkg_name, conflicts[i])
              /\ \A j \in 1..Len(emitted[i].body) :
                    emitted[i].body[j].name # "node_compiler_hard"
              /\ emitted[i].negated = <<Atom("external", <<pkg_name>>)>>
        /\ pc = "candidate_checked" =>
              (rejected <=>
                  /\ Atom("external", <<pkg_name>>) \notin candidate
                  /\ \E i \in 1..Len(conflicts) :
                        ConflictClauses(pkg_name, conflicts[i])
                            \subseteq candidate)

\* a candidate in which the package is external and satisfies every clause
\* of one of its conflicts was met
C6_Witness ==
    /\ pc = "candidate_checked"
    /\ Atom("external", <<pkg_name>>) \in candidate
    /\ \E i \in 1..Len(conflicts) :
          /\ conflicts[i].trigger.variant = "+opt"
          /\ conflicts[i].constraint.compiler # NoCompiler
          /\ ConflictClauses(pkg_name, conflicts[i]) \subseteq candidate
    /\ ~rejected

-----------------------------------------------------------------------------
(* SpackSolverSetup.setup: the spec constraints and the define_* phases,   *)
(* run twice on the same input.  The input specs of the model have no      *)
(* virtual dependency and no target, so virtual_constraints and            *)
(* target_constraints stay empty and their phases emit nothing.            *)

SetupPkgs == {"a", "b"}

\* the input specs: named, without variants
InputSpecs == {s \in AbstractSpecs : s.name \in SetupPkgs /\ s.variant = ""}

\* sorted(specs): at most one spec of a package, a before b
InputSpecLists ==
    {l \in SeqsUpTo(InputSpecs, Cardinality(SetupPkgs)) :
        \A i, j \in 1..Len(l) : i < j => l[i].name = "a" /\ l[j].name = "b"}

\* sorted(self.possible_versions[pkg_name]), the same for every package
SetupVersions == <<"1.0", "2.0", "3.0">>

\* v.satisfies(versions)
version_satisfies(v, versions) ==
    \/ versions = ":"
    \/ versions = v
    \/ versions = "1:" /\ v \in {"1.0", "2.0", "3.0"}
    \/ versions = "2:" /\ v \in {"2.0", "3.0"}
    \/ versions = "4:" /\ v \in {}

\* list(sorted(set(spack.compilers.all_compiler_specs())))
compiler_list == <<[name |-> "gcc", version |-> "4.5.0"]>>

\* compiler.satisfies(cspec)
compiler_satisfies(c, cspec) ==
    /\ c.name = cspec.name
    /\ \/ cspec.versions = c.version
       \/ cspec.versions = "4:" /\ c.version = "4.5.0"

\* PyclingoDriver.one_of_iff: nothing for an empty list
one_of_iff(head, versions) ==
    IF versions = <<>> THEN <<>>
    ELSE <<[kind |-> "one_of_iff", head |-> head, body |-> versions]>>

\* the facts of the "Spec Constraints" part for a list of specs
RECURSIVE spec_facts(_)
spec_facts(ss) ==
    IF ss = <<>> THEN <<>>
    ELSE LET clauses == spec_clauses(Head(ss), FALSE)
         IN  <<Fact(Atom("root", <<Head(ss).name>>))>>
             \o [i \in 1..Len(clauses) |-> Fact(clauses[i])]
             \o spec_facts(Tail(ss))

\* sorted(self.version_constraints)
VersionConstraintOrder ==
    <<<<"a", "1:">>, <<"a", "1.0">>, <<"a", "2:">>, <<"a", "4:">>,
      <<"b", "1:">>, <<"b", "1.0">>, <<"b", "2:">>, <<"b", "4:">>>>
sorted_version_constraints(S) ==
    SelectSeq(VersionConstraintOrder, LAMBDA x : x \in S)

\* what define_version_constraints emits for one recorded constraint
version_constraint_rules(c) ==
    LET satisfying == SelectSeq(SetupVersions,
                          LAMBDA v : version_satisfies(v, c[2]))
        exact_match == SelectSeq(satisfying, LAMBDA v : v = c[2])
        allowed_versions == IF exact_match # <<>> THEN exact_match
                            ELSE satisfying
    IN  IF Len(allowed_versions) = Len(SetupVersions) THEN <<>>
        ELSE one_of_iff(Atom("version_satisfies", <<c[1], c[2]>>),
                 [i \in 1..Len(allowed_versions) |->
                     Atom("version", <<c[1], allowed_versions[i]>>)])

\* what define_compiler_version_constraints emits for one recorded constraint
compiler_constraint_rules(c) ==
    LET satisfying == SelectSeq(compiler_list,
                          LAMBDA x : compiler_satisfies(x, c[2]))
    IN  one_of_iff(Atom("node_compiler_version_satisfies",
                        <<c[1], c[2].name, c[2].versions>>),
            [i \in 1..Len(satisfying) |->
                Atom("node_compiler_version",
                     <<c[1], satisfying[i].name, satisfying[i].version>>)])

RECURSIVE constraint_rules(_, _)
constraint_rules(cs, kind) ==
    IF cs = <<>> THEN <<>>
    ELSE (IF kind = "version" THEN version_constraint_rules(Head(cs))
          ELSE compiler_constraint_rules(Head(cs)))
         \o constraint_rules(Tail(cs), kind)

\* the orders in which the elements of a Python set can be iterated
IterationOrders(S) ==
    {o \in [1..Cardinality(S) -> S] :
        \A i, j \in 1..Cardinality(S) : i # j => o[i] # o[j]}

SetupInit ==
    /\ pc = "spec_constraints"
    /\ raised = "none"
    /\ input_specs \in InputSpecLists
    /\ setup_run = 1
    /\ first_run = <<>>
    /\ repo = <<>>
    /\ pkgs = {}
    /\ emitted = <<>>
    /\ RecordIdle
    /\ VersionIdle
    /\ DepIdle
    /\ ConflictIdle
    /\ DriverIdle
    /\ SolveIdle
    /\ BuildIdle
    /\ CmdIdle

\* SpackSolverSetup.setup, "Spec Constraints"
spec_constraints ==
    /\ pc = "spec_constraints"
    /\ emitted' = emitted \o spec_facts(input_specs)
    /\ version_constraints' = version_constraints \cup
          UNION {recorded_versions(input_specs[i]) :
                    i \in 1..Len(input_specs)}
    /\ compiler_version_constraints' = compiler_version_constraints \cup
          UNION {recorded_compilers(input_specs[i]) :
                    i \in 1..Len(input_specs)}
    /\ pc' = "define_version_constraints"
    /\ UNCHANGED <<raised, virtual_constraints, target_constraints,
                   defined_log, runVars>>
    /\ UNCHANGED <<versionVars, depVars, conflictVars, driverVars>>
    /\ UNCHANGED setupFrame

\* SpackSolverSetup.define_version_constraints
define_version_constraints ==
    /\ pc = "define_version_constraints"
    /\ emitted' = emitted \o
          constraint_rules(sorted_version_constraints(version_constraints),
                           "version")
    /\ pc' = "define_compiler_version_constraints"
    /\ UNCHANGED <<raised, recordVars, runVars>>
    /\ UNCHANGED <<versionVars, depVars, conflictVars, driverVars>>
    /\ UNCHANGED setupFrame

\* SpackSolverSetup.define_compiler_version_constraints: the loop goes
\* through the set as it is
define_compiler_version_constraints ==
    /\ pc = "define_compiler_version_constraints"
    /\ \E o \in IterationOrders(compiler_version_constraints) :
          emitted' = emitted \o constraint_rules(o, "compiler")
    /\ pc' = "setup_done"
    /\ UNCHANGED <<raised, recordVars, runVars>>
    /\ UNCHANGED <<versionVars, depVars, conflictVars, driverVars>>
    /\ UNCHANGED setupFrame

\* a second SpackSolverSetup is set up on the same input
second_run ==
    /\ pc = "setup_done"
    /\ setup_run = 1
    /\ first_run' = emitted
    /\ setup_run' = 2
    /\ emitted' = <<>>
    /\ virtual_constraints' = {}
    /\ target_constraints' = {}
    /\ defined_log' = <<>>
    /\ version_constraints' = {}
    /\ compiler_version_constraints' = {}
    /\ pc' = "spec_constraints"
    /\ UNCHANGED <<raised, input_specs, repo, pkgs>>
    /\ UNCHANGED <<versionVars, depVars, conflictVars, driverVars>>
    /\ UNCHANGED setupFrame

SetupNext ==
    \/ spec_constraints
    \/ define_version_constraints
    \/ define_compiler_version_constraints
    \/ second_run

SetupSpec == SetupInit /\ [][SetupNext]_vars

-----------------------------------------------------------------------------
(* Claims about setup *)

\* C10: two runs of setup on the same input give their generator the same
\* facts and rules in the same order.
C10_SetupIsDeterministic ==
    (pc = "setup_done" /\ setup_run = 2) => emitted = first_run

\* the one_of_iff items given to the generator for a head
EquivalencesFor(head) ==
    {i \in 1..Len(emitted) :
        emitted[i].kind = "one_of_iff" /\ emitted[i].head = head}

\* C13: when setup is done, every recorded compiler-version constraint,
\* also one that no configured compiler satisfies, has its equivalence:
\* node_compiler_version_satisfies(pkg, name, range) with exactly the
\* node_compiler_version atoms of the configured compilers in the range.
C13_CompilerRangeEquivalences ==
    pc = "setup_done" =>
        \A c \in compiler_version_constraints :
            \E i \in EquivalencesFor(Atom("node_compiler_version_satisfies",
                                          <<c[1], c[2].name, c[2].versions>>)) :
                Range(emitted[i].body) =
                    {Atom("node_compiler_version",
                          <<c[1], compiler_list[k].name,
                            compiler_list[k].version>>) :
                        k \in {j \in 1..Len(compiler_list) :
                                  compiler_satisfies(compiler_list[j], c[2])}}

\* the possible versions that satisfy a range, only those equal to the range
\* when there is one
AllowedVersions(versions) ==
    LET satisfying == {v \in Range(SetupVersions) :
                          version_satisfies(v, versions)}
    IN  IF versions \in satisfying THEN {versions} ELSE satisfying

\* C18: when setup is done, a recorded version constraint (pkg, range) that
\* every possible version satisfies has no equivalence, and every other one,
\* also one that no possible version satisfies, has the equivalence of
\* version_satisfies(pkg, range) with exactly the version atoms of the
\* allowed versions.
C18_VersionRangeEquivalences ==
    pc = "setup_done" =>
        \A c \in version_constraints :
            LET eqs == EquivalencesFor(Atom("version_satisfies",
                                            <<c[1], c[2]>>))
            IN  IF \A v \in Range(SetupVersions) : version_satisfies(v, c[2])
                THEN eqs = {}
                ELSE \E i \in eqs :
                        Range(emitted[i].body) =
                            {Atom("version", <<c[1], v>>) :
                                v \in AllowedVersions(c[2])}

-----------------------------------------------------------------------------
(* SpackSolverSetup.setup: the phases that record constraints and the      *)
(* define_* phases that go through them. The phases in between (compilers, *)
(* architecture defaults, preferences) record nothing and are left out.    *)

\* the order with a define_* phase ahead of the input specs
SetupPhases_DefineVersionsEarly ==
    <<"virtual_providers", "external_packages", "pkg_rules",
      "define_virtual_constraints", "define_version_constraints",
      "spec_constraints",
      "define_compiler_version_constraints", "define_target_constraints">>

\* the calls of setup, in order
SetupPhases ==
    <<"virtual_providers", "external_packages", "pkg_rules",
      "spec_constraints",
      "define_virtual_constraints", "define_version_constraints",
      "define_compiler_version_constraints", "define_target_constraints">>

DefinePhases ==
    {"define_virtual_constraints", "define_version_constraints",
     "define_compiler_version_constraints", "define_target_constraints"}

\* the phase after a phase
next_phase(p) ==
    LET k == CHOOSE i \in 1..Len(SetupPhases) : SetupPhases[i] = p
    IN  IF k < Len(SetupPhases) THEN SetupPhases[k + 1] ELSE "setup_done"

\* the constraints the clauses of the model can record, by kind
PhaseVirtuals == {"mpi"}
PhaseVersions == {<<"a", "1:">>, <<"b", "2:">>}
PhaseCompilers == {<<"a", [name |-> "gcc", versions |-> "4:"]>>,
                   <<"b", [name |-> "gcc", versions |-> "4:"]>>}
PhaseTargets == {<<"a", <<[t_min |-> "", t_max |-> "haswell"]>>>>}

\* virtual constraints are recorded for virtual dependencies and virtual
\* input specs; the other kinds by spec_clauses, which every one of the
\* clause-generating phases calls
records_virtuals(p) == p \in {"pkg_rules", "spec_constraints"}

\* the set a define_* phase goes through
recorded(p) ==
    IF p = "define_virtual_constraints" THEN virtual_constraints
    ELSE IF p = "define_version_constraints" THEN version_constraints
    ELSE IF p = "define_compiler_version_constraints"
    THEN compiler_version_constraints
    ELSE target_constraints

PhaseInit ==
    /\ pc = SetupPhases[1]
    /\ raised = "none"
    /\ RecordIdle
    /\ emitted = <<>>
    /\ VersionIdle
    /\ DepIdle
    /\ ConflictIdle
    /\ RunIdle
    /\ DriverIdle
    /\ SolveIdle
    /\ BuildIdle
    /\ CmdIdle

\* a clause-generating phase: its clauses record some constraints
record_phase ==
    /\ pc \in Range(SetupPhases) \ DefinePhases
    /\ \E vs \in SUBSET PhaseVirtuals, ws \in SUBSET PhaseVersions,
          cs \in SUBSET PhaseCompilers, ts \in SUBSET PhaseTargets :
          /\ ~records_virtuals(pc) => vs = {}
          /\ virtual_constraints' = virtual_constraints \cup vs
          /\ version_constraints' = version_constraints \cup ws
          /\ compiler_version_constraints' =
                compiler_version_constraints \cup cs
          /\ target_constraints' = target_constraints \cup ts
    /\ pc' = next_phase(pc)
    /\ UNCHANGED <<raised, emitted, defined_log>>
    /\ UNCHANGED <<versionVars, depVars, conflictVars, runVars, driverVars>>
    /\ UNCHANGED setupFrame

\* a define_* phase: it goes through the set of its kind and records nothing
define_phase ==
    /\ pc \in DefinePhases
    /\ defined_log' = Append(defined_log,
                             [phase |-> pc, constraints |-> recorded(pc)])
    /\ pc' = next_phase(pc)
    /\ UNCHANGED <<raised, emitted, virtual_constraints, version_constraints,
                   compiler_version_constraints, target_constraints>>
    /\ UNCHANGED <<versionVars, depVars, conflictVars, runVars, driverVars>>
    /\ UNCHANGED setupFrame

PhaseNext ==
    \/ record_phase
    \/ define_phase

PhaseSpec == PhaseInit /\ [][PhaseNext]_vars

-----------------------------------------------------------------------------
(* Claims about the phases of setup *)

\* the define_* phases in the order virtual, version, compiler version, target
DefineOrder ==
    <<"define_virtual_constraints", "define_version_constraints",
      "define_compiler_version_constraints", "define_target_constraints">>

\* C30: the define_* phases run after all clause-generating phases, in the
\* order virtual, version, compiler version, target; the set of a kind stays
\* what its define_* phase went through, so nothing is recorded after it; and
\* at the end of setup every recorded constraint of every kind has been gone
\* through by the define_* phase of its kind.
C30_ConstraintsRecordedBeforeDefined ==
    /\ defined_log # <<>> => pc \in DefinePhases \cup {"setup_done"}
    /\ Len(defined_log) <= Len(DefineOrder)
    /\ \A i \in 1..Len(defined_log) :
          /\ i <= Len(DefineOrder) => defined_log[i].phase = DefineOrder[i]
          /\ defined_log[i].constraints = recorded(defined_log[i].phase)
    /\ pc = "setup_done" => Len(defined_log) = Len(DefineOrder)

\* setup is done, constraints of the four kinds were recorded, and the
\* version phase went through both version constraints
C30_Witness ==
    /\ pc = "setup_done"
    /\ virtual_constraints # {}
    /\ version_constraints = PhaseVersions
    /\ compiler_version_constraints # {}
    /\ target_constraints # {}
    /\ defined_log[2].constraints = PhaseVersions

-----------------------------------------------------------------------------
(* SpackSolverSetup.setup: the possible packages and their rules *)

\* the packages of the repository; a package has at most one dependency,
\* without condition: a on b or c, b on c
RepoPkgs == {"a", "b", "c"}
RepoTypeSets == {{"build"}, {"test"}, {"build", "test"}}
RepoEntries(p) ==
    [dep : {d \in RepoPkgs : \E i, j \in 1..Len(PkgOrder) :
                                 i < j /\ PkgOrder[i] = p /\ PkgOrder[j] = d},
     conditional : {FALSE}, types : RepoTypeSets]
Repos ==
    {r \in [RepoPkgs -> SeqsUpTo(UNION {RepoEntries(p) : p \in RepoPkgs}, 1)] :
        \A p \in RepoPkgs : \A i \in 1..Len(r[p]) : r[p][i] \in RepoEntries(p)}

\* spack.dependency.all_deptypes
all_deptypes == {"build", "link", "run", "test"}

\* spack.package.possible_dependencies: the packages and everything they can
\* depend on through dependencies that have one of the types asked for
RECURSIVE possible_dependencies(_, _, _)
possible_dependencies(names, rp, deptype) ==
    LET more == {d \in RepoPkgs : \E p \in names : \E i \in 1..Len(rp[p]) :
                    /\ rp[p][i].dep = d
                    /\ rp[p][i].types \cap deptype # {}}
    IN  IF more \subseteq names THEN names
        ELSE possible_dependencies(names \cup more, rp, deptype)

\* SpackSolverSetup.pkg_rules of a package with the version 1.0 and the
\* variant opt, after the header setup() writes
pkg_rules(pkg, tsts, deps) ==
    <<[kind |-> "h2", head |-> Atom("Package rules", <<pkg>>), body |-> <<>>],
      Fact(Atom("version_declared", <<pkg, "1.0", 0>>)),
      Fact(Atom("variant", <<pkg, "opt">>))>>
    \o dependency_rules(pkg, tsts, deps)

\* the loop over sorted(pkgs)
RECURSIVE package_constraints(_, _, _)
package_constraints(names, tsts, rp) ==
    IF names = <<>> THEN <<>>
    ELSE pkg_rules(Head(names), tsts, rp[Head(names)])
         \o package_constraints(Tail(names), tsts, rp)

\* the input specs: one or two package names
RootLists ==
    {<<NamedSpec("a")>>, <<NamedSpec("b")>>, <<NamedSpec("a"), NamedSpec("b")>>}

WorldInit ==
    /\ pc = "possible_dependencies"
    /\ raised = "none"
    /\ input_specs \in RootLists
    /\ tests \in TestsValues
    /\ repo \in Repos
    /\ pkgs = {}
    /\ pkg_name = ""
    /\ dependencies = <<>>
    /\ setup_run = 0
    /\ first_run = <<>>
    /\ emitted = <<>>
    /\ RecordIdle
    /\ VersionIdle
    /\ ConflictIdle
    /\ DriverIdle
    /\ SolveIdle
    /\ BuildIdle
    /\ CmdIdle

\* setup, lines 1501-1512
close_world ==
    /\ pc = "possible_dependencies"
    /\ pkgs' = possible_dependencies(
                  {input_specs[i].name : i \in 1..Len(input_specs)},
                  repo, all_deptypes)
    /\ pc' = "package_constraints"
    /\ UNCHANGED <<raised, input_specs, setup_run, first_run, repo, emitted>>
    /\ UNCHANGED <<versionVars, depVars, recordVars, conflictVars, driverVars>>
    /\ UNCHANGED setupFrame

\* setup, lines 1540-1547
package_rules ==
    /\ pc = "package_constraints"
    /\ emitted' = emitted \o
          package_constraints(SelectSeq(PkgOrder, LAMBDA p : p \in pkgs),
                              tests, repo)
    /\ pc' = "packages_done"
    /\ UNCHANGED <<raised, runVars>>
    /\ UNCHANGED <<versionVars, depVars, recordVars, conflictVars, driverVars>>
    /\ UNCHANGED setupFrame

WorldNext ==
    \/ close_world
    \/ package_rules

WorldSpec == WorldInit /\ [][WorldNext]_vars

-----------------------------------------------------------------------------
(* Claims about the possible packages *)

\* the packages reached from some packages when a test dependency is followed
\* only where tests asks for it
RECURSIVE RequestedClosure(_, _, _)
RequestedClosure(names, rp, tsts) ==
    LET more == {d \in RepoPkgs : \E p \in names : \E i \in 1..Len(rp[p]) :
                    /\ rp[p][i].dep = d
                    /\ \E t \in rp[p][i].types : ~skip_type(t, tsts, p)}
    IN  IF more \subseteq names THEN names
        ELSE RequestedClosure(names \cup more, rp, tsts)

\* C19: the possible packages are those reached from the input specs through
\* dependencies other than test dependencies, and through the test
\* dependencies of the packages tests asks for; a package that is not among
\* them gets no package rules, no version facts and no variant facts.
C19_TestDependenciesClosedOnRequest ==
    pc # "possible_dependencies" =>
        LET requested ==
               RequestedClosure(
                   {input_specs[i].name : i \in 1..Len(input_specs)},
                   repo, tests)
        IN  /\ pkgs \subseteq requested
            /\ \A i \in 1..Len(emitted) :
                  emitted[i].head.name
                        \in {"Package rules", "version_declared", "variant"}
                     => emitted[i].head.args[1] \in requested

-----------------------------------------------------------------------------
(* _normalize_packages_yaml *)

\* bound on the length of a list of externals
MaxExternals == 2

\* the keys of a configuration, in one of the two orders of the model; mpi is
\* the virtual, mpich and openmpi provide it
YamlKeyOrders == {<<"all", "mpi", "mpich", "openmpi">>,
                  <<"openmpi", "mpich", "mpi", "all">>}

\* spack.repo.path.providers_for(name), sorted
providers_for(name) == IF name = "mpi" THEN <<"mpich", "openmpi">> ELSE <<>>

\* an external: Spec(x['spec'])
External(name, version) ==
    [name |-> name, versions |-> version, variant |-> "",
     compiler |-> NoCompiler]

\* an entry of the configuration: its key, 'buildable' ("unset" without the
\* key) and 'externals' (has_externals: whether the key is there)
YamlEntry(name, buildable, has_externals, externals) ==
    [name |-> name, buildable |-> buildable, has_externals |-> has_externals,
     externals |-> externals]

ExternalLists(S) == SeqsUpTo(S, MaxExternals)

\* the entries a key can have
YamlEntries(name) ==
    IF name = "all"
    THEN {YamlEntry(name, "true", FALSE, <<>>)}
    ELSE IF name = "mpi"
    THEN {YamlEntry(name, b, h, xs) :
             b \in {"unset", "true", "false"}, h \in BOOLEAN,
             xs \in ExternalLists({External("mpich", "1.0"),
                                   External("openmpi", "1.0"),
                                   External("openmpi", "2.0")})}
    ELSE IF name = "openmpi"
    THEN {YamlEntry(name, b, h, xs) :
             b \in {"unset", "true"}, h \in BOOLEAN,
             xs \in ExternalLists({External("openmpi", "1.0"),
                                   External("openmpi", "2.0")})}
    ELSE {YamlEntry(name, "true", TRUE, <<External("mpich", "1.0")>>)}

\* the configurations: some of the keys in one of the orders, each with one
\* of its entries; an entry without the 'externals' key has no list
RECURSIVE YamlsOver(_)
YamlsOver(keys) ==
    IF keys = <<>> THEN {<<>>}
    ELSE {<<e>> \o rest :
             e \in {x \in YamlEntries(Head(keys)) :
                       ~x.has_externals => x.externals = <<>>},
             rest \in YamlsOver(Tail(keys))}

PackagesYamls ==
    UNION {YamlsOver(SelectSeq(o, LAMBDA k : k \in keep)) :
              o \in YamlKeyOrders,
              keep \in SUBSET {"all", "mpi", "mpich", "openmpi"}}

\* dict operations on a configuration
yaml_keys(y) == {y[i].name : i \in 1..Len(y)}
yaml_get(y, k) == y[CHOOSE i \in 1..Len(y) : y[i].name = k]
yaml_pop(y, k) == SelectSeq(y, LAMBDA e : e.name # k)
yaml_setdefault(y, k) ==
    IF k \in yaml_keys(y) THEN y
    ELSE Append(y, YamlEntry(k, "unset", FALSE, <<>>))

\* entry = normalized_yaml.setdefault(provider.name, {});
\* entry['buildable'] = False, for each provider
RECURSIVE not_buildable(_, _)
not_buildable(y, providers) ==
    IF providers = <<>> THEN y
    ELSE LET y1 == yaml_setdefault(y, Head(providers))
         IN  not_buildable(
                 [i \in 1..Len(y1) |->
                     IF y1[i].name = Head(providers)
                     THEN [y1[i] EXCEPT !.buildable = "false"]
                     ELSE y1[i]],
                 Tail(providers))

\* itertools.groupby(externals, key=keyfn): the length of the first group
RECURSIVE first_group(_)
first_group(externals) ==
    IF Len(externals) <= 1 THEN Len(externals)
    ELSE IF externals[2].name = externals[1].name
    THEN 1 + first_group(Tail(externals))
    ELSE 1

\* entry = normalized_yaml.setdefault(provider, {});
\* entry.setdefault('externals', []).extend(specs), for each group
RECURSIVE extend_externals_Prepending(_, _)
extend_externals_Prepending(y, externals) ==
    IF externals = <<>> THEN y
    ELSE LET n == first_group(externals)
             provider == externals[1].name
             y1 == yaml_setdefault(y, provider)
         IN  extend_externals_Prepending(
                 [i \in 1..Len(y1) |->
                     IF y1[i].name = provider
                     THEN [y1[i] EXCEPT
                             !.has_externals = TRUE,
                             !.externals = SubSeq(externals, 1, n) \o @]
                     ELSE y1[i]],
                 SubSeq(externals, n + 1, Len(externals)))

RECURSIVE extend_externals(_, _)
extend_externals(y, externals) ==
    IF externals = <<>> THEN y
    ELSE LET n == first_group(externals)
             provider == externals[1].name
             y1 == yaml_setdefault(y, provider)
         IN  extend_externals(
                 [i \in 1..Len(y1) |->
                     IF y1[i].name = provider
                     THEN [y1[i] EXCEPT
                             !.has_externals = TRUE,
                             !.externals = @ \o SubSeq(externals, 1, n)]
                     ELSE y1[i]],
                 SubSeq(externals, n + 1, Len(externals)))

\* the loop of _normalize_packages_yaml over the keys that are left
RECURSIVE normalize_keys(_, _, _)
normalize_keys(normalized, yaml, keys) ==
    IF keys = <<>> THEN normalized
    ELSE IF Head(keys) = "all" \/ ~is_virtual(Head(keys))
    THEN normalize_keys(normalized, yaml, Tail(keys))
    ELSE LET data == yaml_get(normalized, Head(keys))
             popped == yaml_pop(normalized, Head(keys))
             marked == IF data.buildable = "false"
                       THEN not_buildable(popped, providers_for(Head(keys)))
                       ELSE popped
         IN  normalize_keys(extend_externals(marked, data.externals),
                            yaml, Tail(keys))

normalize_packages_yaml(yaml) ==
    normalize_keys(yaml, yaml, [i \in 1..Len(yaml) |-> yaml[i].name])

NormalizeInit ==
    /\ pc = "normalize"
    /\ raised = "none"
    /\ packages_yaml \in PackagesYamls
    /\ normalized_yaml = <<>>
    /\ yaml_object = packages_yaml
    /\ pkg_versions = <<>>
    /\ input_versions = {}
    /\ version_prefs = <<>>
    /\ possible_versions = {}
    /\ TargetIdle
    /\ emitted = <<>>
    /\ DepIdle
    /\ RecordIdle
    /\ ConflictIdle
    /\ RunIdle
    /\ DriverIdle
    /\ SolveIdle
    /\ BuildIdle
    /\ CmdIdle

\* the argument after the call: copy.copy copies the mapping and not its
\* entries, so an entry that is in both is one object, as the call left it
argument_after(yaml, normalized) ==
    [i \in 1..Len(yaml) |->
        IF yaml[i].name \in yaml_keys(normalized)
        THEN yaml_get(normalized, yaml[i].name)
        ELSE yaml[i]]

\* the first call of _normalize_packages_yaml; packages_yaml keeps what the
\* argument held when the call was made
normalize_call ==
    /\ pc = "normalize"
    /\ normalized_yaml' = normalize_packages_yaml(yaml_object)
    /\ yaml_object' = argument_after(yaml_object, normalized_yaml')
    /\ pc' = "normalized"
    /\ UNCHANGED <<raised, packages_yaml, pkg_versions, input_versions,
                   version_prefs, possible_versions, emitted, targetVars>>
    /\ UNCHANGED <<depVars, recordVars, conflictVars, runVars, driverVars>>
    /\ UNCHANGED setupFrame

\* SpecBuilder.external_spec: the call on the same mapping for an
\* external_spec atom of the model
external_spec ==
    /\ pc = "normalized"
    /\ normalized_yaml' = normalize_packages_yaml(yaml_object)
    /\ yaml_object' = argument_after(yaml_object, normalized_yaml')
    /\ pc' = "external_spec"
    /\ UNCHANGED <<raised, packages_yaml, pkg_versions, input_versions,
                   version_prefs, possible_versions, emitted, targetVars>>
    /\ UNCHANGED <<depVars, recordVars, conflictVars, runVars, driverVars>>
    /\ UNCHANGED setupFrame

NormalizeNext == normalize_call \/ external_spec

NormalizeSpec == NormalizeInit /\ [][NormalizeNext]_vars

-----------------------------------------------------------------------------
(* Claims about _normalize_packages_yaml *)

\* the externals listed under the virtual keys for a package, in order
VirtualExternals(yaml, name) ==
    LET under(i) == IF is_virtual(yaml[i].name)
                    THEN SelectSeq(yaml[i].externals,
                                   LAMBDA x : x.name = name)
                    ELSE <<>>
        all[i \in 0..Len(yaml)] ==
            IF i = 0 THEN <<>> ELSE all[i - 1] \o under(i)
    IN  all[Len(yaml)]

\* the packages a virtual entry touches
Touched(yaml) ==
    {k \in {"mpich", "openmpi"} :
        \/ VirtualExternals(yaml, k) # <<>>
        \/ \E i \in 1..Len(yaml) :
              /\ is_virtual(yaml[i].name)
              /\ yaml[i].buildable = "false"
              /\ k \in Range(providers_for(yaml[i].name))}

\* C24: the normalized configuration has no virtual key; when a virtual entry
\* is not buildable every provider of it has buildable = False; the externals
\* under a virtual key are under the package of their spec, after the
\* package's own externals and in their order; the 'all' entry and the entries
\* of the packages no virtual entry touches are those of the input.
C24_VirtualsMovedToProviders ==
    pc = "normalized" =>
        /\ \A k \in yaml_keys(normalized_yaml) : ~is_virtual(k)
        /\ \A i \in 1..Len(packages_yaml) :
              (is_virtual(packages_yaml[i].name)
                  /\ packages_yaml[i].buildable = "false") =>
                 \A k \in Range(providers_for(packages_yaml[i].name)) :
                    /\ k \in yaml_keys(normalized_yaml)
                    /\ yaml_get(normalized_yaml, k).buildable = "false"
        /\ \A k \in {"mpich", "openmpi"} :
              VirtualExternals(packages_yaml, k) # <<>> =>
                 /\ k \in yaml_keys(normalized_yaml)
                 /\ yaml_get(normalized_yaml, k).has_externals
                 /\ yaml_get(normalized_yaml, k).externals =
                       (IF k \in yaml_keys(packages_yaml)
                        THEN yaml_get(packages_yaml, k).externals ELSE <<>>)
                       \o VirtualExternals(packages_yaml, k)
        /\ \A k \in {"all", "mpich", "openmpi"} \ Touched(packages_yaml) :
              /\ k \in yaml_keys(normalized_yaml) <=> k \in yaml_keys(packages_yaml)
              /\ k \in yaml_keys(packages_yaml) =>
                    yaml_get(normalized_yaml, k) = yaml_get(packages_yaml, k)

\* a virtual entry that is not buildable listed an external of openmpi, then
\* one of mpich, and openmpi had an external of its own
C24_Witness ==
    /\ pc = "normalized"
    /\ \E i \in 1..Len(packages_yaml) :
          /\ packages_yaml[i].name = "mpi"
          /\ packages_yaml[i].buildable = "false"
          /\ Len(packages_yaml[i].externals) = MaxExternals
          /\ packages_yaml[i].externals[1].name = "openmpi"
          /\ packages_yaml[i].externals[2].name = "mpich"
    /\ \E i \in 1..Len(packages_yaml) :
          /\ packages_yaml[i].name = "openmpi"
          /\ packages_yaml[i].externals # <<>>
    /\ yaml_get(normalized_yaml, "openmpi").externals
          # yaml_get(packages_yaml, "openmpi").externals

\* C27: after the calls the mapping given to _normalize_packages_yaml equals
\* what it was before the first call, its entries and their 'externals' lists
\* included, and the call of the Spec builder returns what the first call on
\* that mapping returned.
C27_ArgumentLeftAlone ==
    pc \in {"normalized", "external_spec"} =>
        /\ yaml_object = packages_yaml
        /\ normalized_yaml = normalize_packages_yaml(packages_yaml)

-----------------------------------------------------------------------------
(* SpackSolverSetup.external_packages *)

\* the configurations of this machine: 'all' first, a virtual entry that
\* lists externals of openmpi, and openmpi's own entry
ExternalYamls ==
    {y \in PackagesYamls :
        /\ y # <<>>
        /\ y[1].name = "all"
        /\ \A i \in 1..Len(y) :
              /\ y[i].name # "mpich"
              /\ y[i].name = "mpi" =>
                    /\ y[i].buildable # "true"
                    /\ \A j \in 1..Len(y[i].externals) :
                          y[i].externals[j].name = "openmpi"
              /\ y[i].name = "openmpi" => y[i].buildable = "unset"}

\* the order of versions
VersionRank(v) == IF v = "1.0" THEN 1 ELSE 2

\* sorted(external_versions): the indexes of the external specs, by version
\* and then by index
RECURSIVE sorted_indexes(_, _)
sorted_indexes(externals, left) ==
    IF left = {} THEN <<>>
    ELSE LET least == CHOOSE i \in left : \A j \in left \ {i} :
                         \/ VersionRank(externals[i].versions)
                               < VersionRank(externals[j].versions)
                         \/ /\ externals[i].versions = externals[j].versions
                            /\ i < j
         IN  <<least>> \o sorted_indexes(externals, left \ {least})

\* external_versions: (version, weight, id) in the order of the facts
external_versions_Unsorted(externals) ==
    [w \in 1..Len(externals) |->
        [version |-> externals[w].versions, weight |-> -w, id |-> w - 1]]

external_versions(externals) ==
    LET order == sorted_indexes(externals, 1..Len(externals))
    IN  [w \in 1..Len(order) |->
            [version |-> externals[order[w]].versions,
             weight |-> -w,
             id |-> order[w] - 1]]

\* the two rules between external_spec(pkg, id) and the clauses of the spec
external_spec_rules_OneWay(pkg, id, spec) ==
    <<Rule(Atom("external_spec", <<pkg, id>>), spec_clauses(spec, TRUE))>>

external_spec_rules(pkg, id, spec) ==
    LET clauses == spec_clauses(spec, TRUE)
    IN  <<Rule(Atom("external_spec", <<pkg, id>>), clauses)>>
        \o [i \in 1..Len(clauses) |->
               Rule(clauses[i], <<Atom("external_spec", <<pkg, id>>)>>)]

RECURSIVE external_specs_rules(_, _, _)
external_specs_rules(pkg, externals, id) ==
    IF id = Len(externals) THEN <<>>
    ELSE external_spec_rules(pkg, id, externals[id + 1])
         \o external_specs_rules(pkg, externals, id + 1)

\* what external_packages gives to the generator for one entry; the two rules
\* written as text are "external :- 1 { ids } 1." (if_one_of) and
\* "1 { ids } 1 :- external." (one_of_if)
external_package(data) ==
    LET pkg == data.name
        versions == external_versions(data.externals)
        spec_id_list == [i \in 1..Len(data.externals) |->
                            Atom("external_spec", <<pkg, i - 1>>)]
    IN  (IF ~data.has_externals
         THEN <<Fact(Atom("-external", <<pkg>>))>> ELSE <<>>)
        \o (IF data.buildable = "false"
            THEN <<Fact(Atom("external_only", <<pkg>>))>> ELSE <<>>)
        \o [i \in 1..Len(versions) |->
               Fact(Atom("external_version_declared",
                         <<pkg, versions[i].version, versions[i].weight,
                           versions[i].id>>))]
        \o external_specs_rules(pkg, data.externals, 0)
        \o <<[kind |-> "if_one_of", head |-> Atom("external", <<pkg>>),
              body |-> spec_id_list],
             [kind |-> "one_of_if", head |-> Atom("external", <<pkg>>),
              body |-> spec_id_list]>>

RECURSIVE external_packages_items(_)
external_packages_items(yaml) ==
    IF yaml = <<>> THEN <<>>
    ELSE (IF Head(yaml).name = "all" THEN <<>>
          ELSE external_package(Head(yaml)))
         \o external_packages_items(Tail(yaml))

\* the atoms a candidate can hold about a package: whether it is external,
\* the ids of its external specs, the clauses of external specs
ExternalClauses(pkg) ==
    {Atom("node", <<pkg>>), Atom("version_satisfies", <<pkg, "1.0">>),
     Atom("version_satisfies", <<pkg, "2.0">>)}

holds(cand, atom) ==
    IF atom.name = "external" THEN cand.external
    ELSE IF atom.name = "external_spec" THEN atom.args[2] \in cand.ids
    ELSE atom \in cand.clauses

\* whether a candidate breaks an item about its package; external(pkg) and
\* -external(pkg) cannot hold together
breaks(cand, item) ==
    IF item.kind = "fact"
    THEN item.head.name = "-external" /\ cand.external
    ELSE IF item.kind = "rule"
    THEN /\ \A i \in 1..Len(item.body) : holds(cand, item.body[i])
         /\ ~holds(cand, item.head)
    ELSE IF item.kind = "if_one_of"
    THEN /\ Cardinality({i \in 1..Len(item.body) :
                            holds(cand, item.body[i])}) = 1
         /\ ~cand.external
    ELSE /\ cand.external
         /\ Cardinality({i \in 1..Len(item.body) :
                            holds(cand, item.body[i])}) # 1

ExternalInit ==
    /\ pc = "external_packages"
    /\ raised = "none"
    /\ packages_yaml \in ExternalYamls
    /\ normalized_yaml = <<>>
    /\ yaml_object = packages_yaml
    /\ pkg_versions = <<>>
    /\ input_versions = {}
    /\ version_prefs = <<>>
    /\ possible_versions = {}
    /\ TargetIdle
    /\ emitted = <<>>
    /\ DepIdle
    /\ RecordIdle
    /\ ConflictIdle
    /\ RunIdle
    /\ DriverIdle
    /\ SolveIdle
    /\ BuildIdle
    /\ CmdIdle

\* SpackSolverSetup.external_packages
external_packages ==
    /\ pc = "external_packages"
    /\ normalized_yaml' = normalize_packages_yaml(yaml_object)
    /\ yaml_object' = argument_after(yaml_object, normalized_yaml')
    /\ emitted' = emitted \o external_packages_items(normalized_yaml')
    /\ version_constraints' = version_constraints \cup
          UNION {recorded_versions(normalized_yaml'[i].externals[j]) :
                    <<i, j>> \in {ij \in (1..Len(normalized_yaml'))
                                        \X (1..(2 * MaxExternals)) :
                        /\ normalized_yaml'[ij[1]].name # "all"
                        /\ ij[2] <= Len(normalized_yaml'[ij[1]].externals)}}
    /\ pc' = "externals_done"
    /\ UNCHANGED <<raised, packages_yaml, pkg_versions, input_versions,
                   version_prefs, possible_versions, targetVars>>
    /\ UNCHANGED <<virtual_constraints, compiler_version_constraints,
                   target_constraints, defined_log>>
    /\ UNCHANGED <<depVars, conflictVars, runVars, driverVars>>
    /\ UNCHANGED setupFrame

\* the solver meets a candidate answer set; what it holds about one package
check_external_candidate ==
    /\ pc = "externals_done"
    /\ \E i \in 1..Len(normalized_yaml) :
          /\ normalized_yaml[i].name # "all"
          /\ \E cand \in [pkg : {normalized_yaml[i].name},
                          external : BOOLEAN,
                          ids : SUBSET (0..(Len(normalized_yaml[i].externals)
                                            - 1)),
                          clauses : SUBSET ExternalClauses(
                                               normalized_yaml[i].name)] :
                /\ candidate' = cand
                /\ rejected' = \E k \in 1..Len(emitted) :
                      /\ emitted[k].head.args[1] = cand.pkg
                      /\ breaks(cand, emitted[k])
    /\ pc' = "candidate_checked"
    /\ UNCHANGED <<raised, conflicts, gen_cores, emitted>>
    /\ UNCHANGED <<versionVars, depVars, recordVars, runVars, driverVars>>
    /\ UNCHANGED setupFrame

ExternalNext ==
    \/ external_packages
    \/ check_external_candidate

ExternalSpec == ExternalInit /\ [][ExternalNext]_vars

-----------------------------------------------------------------------------
(* Claims about external_packages *)

\* the entries of the normalized configuration that are packages
PackageEntries ==
    {i \in 1..Len(normalized_yaml) : normalized_yaml[i].name # "all"}

\* C22: a candidate that the rules of external_packages admit holds
\* external_spec(pkg, id) exactly when it holds every body clause of the
\* external entry id, and holds external(pkg) exactly when it holds exactly
\* one external_spec(pkg, id); for an entry without the 'externals' key it
\* does not hold external(pkg).
C22_ExternalIffOneExternalSpec ==
    (pc = "candidate_checked" /\ ~rejected) =>
        LET data == yaml_get(normalized_yaml, candidate.pkg)
        IN  /\ \A id \in 0..(Len(data.externals) - 1) :
                  id \in candidate.ids <=>
                     Range(spec_clauses(data.externals[id + 1], TRUE))
                        \subseteq candidate.clauses
            /\ candidate.external <=> Cardinality(candidate.ids) = 1
            /\ ~data.has_externals => ~candidate.external

\* an admitted candidate holds external(pkg) for a package with two
\* external entries, one under the virtual entry
C22_Witness ==
    /\ pc = "candidate_checked"
    /\ ~rejected
    /\ candidate.external
    /\ Len(yaml_get(normalized_yaml, candidate.pkg).externals) >= 2
    /\ "mpi" \in yaml_keys(packages_yaml)
    /\ yaml_get(packages_yaml, "mpi").externals # <<>>
    /\ \E i \in PackageEntries : ~normalized_yaml[i].has_externals

\* the external_version_declared facts of a package, in the order emitted
VersionDeclared(pkg) ==
    SelectSeq(emitted, LAMBDA x :
        /\ x.kind = "fact"
        /\ x.head.name = "external_version_declared"
        /\ x.head.args[1] = pkg)

\* C23: for a package with n external entries there are n
\* external_version_declared facts; every id of 0..n-1 has one, with the
\* version of the entry at that position; the weights are the n numbers -1
\* to -n; and of two entries the one with the higher version, or with the
\* same version and the higher id, has the more negative weight.
C23_ExternalVersionWeights ==
    pc # "external_packages" =>
        \A e \in PackageEntries :
            LET data == normalized_yaml[e]
                n == Len(data.externals)
                facts == VersionDeclared(data.name)
                fact_of(id) == CHOOSE i \in 1..Len(facts) :
                                   facts[i].head.args[4] = id
                weight(id) == facts[fact_of(id)].head.args[3]
            IN  /\ Len(facts) = n
                /\ \A id \in 0..(n - 1) :
                      /\ \E i \in 1..n : facts[i].head.args[4] = id
                      /\ facts[fact_of(id)].head.args[2]
                            = data.externals[id + 1].versions
                /\ {facts[i].head.args[3] : i \in 1..n} = {-w : w \in 1..n}
                /\ \A a, b \in 0..(n - 1) :
                      \/ VersionRank(data.externals[a + 1].versions)
                            < VersionRank(data.externals[b + 1].versions)
                      \/ /\ data.externals[a + 1].versions
                               = data.externals[b + 1].versions
                         /\ a < b
                      => weight(b) < weight(a)

\* a package has an external of version 2.0 before one of version 1.0, and
\* two externals of the same version
C23_Witness ==
    /\ pc = "externals_done"
    /\ \E e \in PackageEntries :
          LET xs == normalized_yaml[e].externals
          IN  /\ \E i, j \in 1..Len(xs) :
                    i < j /\ xs[i].versions = "2.0" /\ xs[j].versions = "1.0"
              /\ \E i, j \in 1..Len(xs) :
                    i < j /\ xs[i].versions = xs[j].versions

-----------------------------------------------------------------------------
(* SpackSolverSetup.target_defaults *)

\* the microarchitectures of archspec that the model knows, least to most
\* recent; haswell is the host, x86_64 the family of all of them
KnownTargets == <<"x86_64", "nehalem", "haswell", "skylake">>
TargetFamily == "x86_64"
HostTarget == "haswell"

\* target.parents and, from the most recent, uarch.ancestors
target_parents(t) ==
    IF t = "skylake" THEN <<"haswell">>
    ELSE IF t = "haswell" THEN <<"nehalem">>
    ELSE IF t = "nehalem" THEN <<"x86_64">>
    ELSE <<>>
RECURSIVE target_ancestors(_)
target_ancestors(t) ==
    IF target_parents(t) = <<>> THEN <<>>
    ELSE target_parents(t) \o target_ancestors(target_parents(t)[1])

\* the compilers of the configuration, sorted
TargetCompilers == <<[name |-> "gcc", version |-> "4.5.0"],
                     [name |-> "gcc", version |-> "9.0"]>>

\* SpackSolverSetup._supported_targets: the targets whose optimization_flags
\* does not raise, most to least recent
supported_targets(compiler, targets, support) ==
    LET recent == [i \in 1..Len(KnownTargets) |->
                      KnownTargets[Len(KnownTargets) + 1 - i]]
    IN  SelectSeq(recent, LAMBDA t :
            t \in Range(targets) /\ <<compiler, t>> \in support)

\* the two facts of each supported target of a compiler
RECURSIVE compiler_target_facts(_, _)
compiler_target_facts(compiler, supported) ==
    IF supported = <<>> THEN <<>>
    ELSE <<Fact(Atom("compiler_supports_target",
                     <<compiler.name, compiler.version, Head(supported)>>)),
           Fact(Atom("compiler_supports_target",
                     <<compiler.name, compiler.version, TargetFamily>>))>>
         \o compiler_target_facts(compiler, Tail(supported))

\* the loop over sorted(compilers)
RECURSIVE compilers_facts(_, _, _)
compilers_facts(compilers, targets, support) ==
    IF compilers = <<>> THEN <<>>
    ELSE compiler_target_facts(Head(compilers),
             supported_targets(Head(compilers), targets, support))
         \o compilers_facts(Tail(compilers), targets, support)

\* best_targets after the loop
best_targets(compilers, targets, support) ==
    {TargetFamily} \cup
    {t \in Range(targets) : \E c \in Range(compilers) : <<c, t>> \in support}

\* the targets mentioned in the specs, added to compatible_targets; a name
\* archspec does not know raises
RECURSIVE add_spec_targets(_, _)
add_spec_targets(targets, mentioned) ==
    IF mentioned = <<>> THEN [error |-> "none", targets |-> targets]
    ELSE IF Head(mentioned) \notin Range(KnownTargets)
    THEN [error |-> "ValueError", targets |-> targets]
    ELSE add_spec_targets(
             IF Head(mentioned) \in Range(targets) THEN targets
             ELSE Append(targets, Head(mentioned)),
             Tail(mentioned))

\* the last loop with a counter that never advances
RECURSIVE target_facts_SameWeight(_, _, _, _)
target_facts_SameWeight(targets, best, k, i) ==
    IF k > Len(targets) THEN <<>>
    ELSE <<Fact(Atom("target", <<targets[k]>>)),
           Fact(Atom("default_target_weight",
                     <<targets[k], IF targets[k] \in best THEN i ELSE 100>>))>>
         \o target_facts_SameWeight(targets, best, k + 1, i)

\* the facts of the last loop, for the targets from position k on, i being
\* the next weight
RECURSIVE target_facts(_, _, _, _)
target_facts(targets, best, k, i) ==
    IF k > Len(targets) THEN <<>>
    ELSE LET t == targets[k]
             parents == target_parents(t)
         IN  <<Fact(Atom("target", <<t>>)),
               Fact(Atom("target_family", <<t, TargetFamily>>))>>
             \o [j \in 1..Len(parents) |->
                    Fact(Atom("target_parent", <<t, parents[j]>>))]
             \o <<Fact(Atom("default_target_weight",
                            <<t, IF t \in best THEN i ELSE 100>>))>>
             \o target_facts(targets, best, k + 1,
                             IF t \in best THEN i + 1 ELSE i)

TargetInit ==
    /\ pc = "target_defaults"
    /\ raised = "none"
    /\ target_compilers \in SUBSET Range(TargetCompilers)
    /\ spec_targets \in SeqsUpTo({"haswell", "skylake", "bogus"}, 1)
    /\ target_support \in SUBSET (Range(TargetCompilers) \X Range(KnownTargets))
    /\ pkg_versions = <<>>
    /\ input_versions = {}
    /\ version_prefs = <<>>
    /\ possible_versions = {}
    /\ ConfigIdle
    /\ emitted = <<>>
    /\ DepIdle
    /\ RecordIdle
    /\ ConflictIdle
    /\ RunIdle
    /\ DriverIdle
    /\ SolveIdle
    /\ BuildIdle
    /\ CmdIdle

\* SpackSolverSetup.target_defaults
target_defaults ==
    /\ pc = "target_defaults"
    /\ LET compatible_targets == <<HostTarget>> \o target_ancestors(HostTarget)
           compilers == SelectSeq(TargetCompilers,
                                  LAMBDA c : c \in target_compilers)
           probed == compilers_facts(compilers, compatible_targets,
                                     target_support)
           best == best_targets(compilers, compatible_targets, target_support)
           added == add_spec_targets(compatible_targets, spec_targets)
       IN  IF added.error # "none"
           THEN /\ emitted' = emitted \o probed
                /\ raised' = added.error
                /\ pc' = "raised"
           ELSE /\ emitted' = emitted \o probed
                                \o target_facts(added.targets, best, 1, 0)
                /\ pc' = "targets_done"
                /\ UNCHANGED raised
    /\ UNCHANGED <<pkg_versions, input_versions, version_prefs,
                   possible_versions, configVars, targetVars>>
    /\ UNCHANGED <<depVars, recordVars, conflictVars, runVars, driverVars>>
    /\ UNCHANGED setupFrame

TargetNext == target_defaults

TargetSpec == TargetInit /\ [][TargetNext]_vars

-----------------------------------------------------------------------------
(* Claims about target_defaults *)

\* the targets of the compatibility family: the host, its ancestors and the
\* targets the input specs mention
CompatibilityFamily ==
    {HostTarget} \cup Range(target_ancestors(HostTarget))
    \cup (Range(spec_targets) \cap Range(KnownTargets))

SupportsTarget(c, t) ==
    \E i \in 1..Len(emitted) :
        /\ emitted[i].head.name = "compiler_supports_target"
        /\ emitted[i].head.args = <<c.name, c.version, t>>

\* C25: when target_defaults is done, compiler_supports_target(name, version,
\* target) is among the facts exactly for the possible compilers and the
\* targets of the compatibility family, those mentioned in an input spec
\* included, whose probe succeeds.
C25_SupportFollowsTheProbe ==
    pc = "targets_done" =>
        \A c \in target_compilers : \A t \in CompatibilityFamily :
            SupportsTarget(c, t) <=> <<c, t>> \in target_support

\* the targets target_defaults declared
DeclaredTargets ==
    {emitted[i].head.args[1] : i \in
        {j \in 1..Len(emitted) : emitted[j].head.name = "target"}}

\* the positions of the default_target_weight facts of a target
WeightFacts(t) ==
    {i \in 1..Len(emitted) :
        /\ emitted[i].head.name = "default_target_weight"
        /\ emitted[i].head.args[1] = t}

WeightOf(t) == emitted[CHOOSE i \in WeightFacts(t) : TRUE].head.args[2]

\* the host family and the targets some possible compiler supports
BestTargets ==
    {t \in DeclaredTargets :
        t = TargetFamily \/ \E c \in target_compilers : SupportsTarget(c, t)}

\* host first, then its ancestors
HostOrder == <<HostTarget>> \o target_ancestors(HostTarget)

\* C26: when target_defaults is done every declared target has exactly one
\* default_target_weight; the best targets, taken host first and then its
\* ancestors, have the weights 0, 1, 2, ..., every other declared target has
\* weight 100, and every best target weighs less than every other target.
C26_BestTargetsWeighLess ==
    pc = "targets_done" =>
        /\ \A t \in DeclaredTargets : Cardinality(WeightFacts(t)) = 1
        /\ BestTargets \subseteq Range(HostOrder)
        /\ \A k \in 1..Len(HostOrder) :
              HostOrder[k] \in BestTargets =>
                  WeightOf(HostOrder[k]) =
                      Cardinality({j \in 1..(k - 1) :
                                      HostOrder[j] \in BestTargets})
        /\ \A t \in DeclaredTargets \ BestTargets : WeightOf(t) = 100
        /\ \A t \in BestTargets : \A u \in DeclaredTargets \ BestTargets :
              WeightOf(t) < WeightOf(u)

\* three best targets and a declared target that is not one of them
C26_Witness ==
    /\ pc = "targets_done"
    /\ Cardinality(BestTargets) = 3
    /\ "skylake" \in DeclaredTargets \ BestTargets
    /\ WeightOf("x86_64") = 2

-----------------------------------------------------------------------------
(* PyclingoDriver: what its assertion calls add to the solver backend *)

\* bound on the number of assertion calls of a session
MaxCalls == 2

\* the atoms the calls are about
DriverAtoms == {Atom("p", <<"a">>), Atom("q", <<"a">>)}

\* backend.add_rule(head, body, choice) and, with a lower bound,
\* backend.add_weight_rule(head, lower, body) with weights 1; the negated
\* literals of the body are kept apart
BackendRule(origin, head, body, negated, choice, lower) ==
    [origin |-> origin, head |-> head, body |-> body, negated |-> negated,
     choice |-> choice, lower |-> lower]

\* clingo.Function("rule", [rule_str]); the rendered text of a rule is
\* given by its parts
RuleAtom(head, body, negated) ==
    [name |-> "rule", args |-> <<>>,
     text |-> [head |-> head, body |-> body, negated |-> negated]]

\* PyclingoDriver._register_rule_for_cores
register_rule_for_cores(cores_on, head, body, negated) ==
    IF cores_on
    THEN [rule_atoms |-> <<RuleAtom(head, body, negated)>>,
          rules |-> <<BackendRule("rule_atom",
                          <<RuleAtom(head, body, negated)>>, <<>>, <<>>,
                          TRUE, 0)>>]
    ELSE [rule_atoms |-> <<>>, rules |-> <<>>]

\* the backend rules and the assumptions of each assertion call
add_fact(cores_on, head) ==
    [rules |-> <<BackendRule("fact", <<head>>, <<>>, <<>>, cores_on, 0)>>,
     assumptions |-> IF cores_on THEN <<head>> ELSE <<>>]

add_rule(cores_on, head, body) ==
    LET reg == register_rule_for_cores(cores_on, <<head>>, body, <<>>)
    IN  [rules |-> reg.rules \o
            <<BackendRule("rule", <<head>>, body \o reg.rule_atoms, <<>>,
                          FALSE, 0)>>,
         assumptions |-> reg.rule_atoms]

add_integrity_constraint(cores_on, body, negated) ==
    LET reg == register_rule_for_cores(cores_on, <<>>, body, negated)
    IN  [rules |-> reg.rules \o
            <<BackendRule("integrity_constraint", <<>>,
                          body \o reg.rule_atoms, negated, FALSE, 0)>>,
         assumptions |-> reg.rule_atoms]

add_iff(cores_on, expr1, expr2) ==
    LET r1 == add_rule(cores_on, expr1, <<expr2>>)
        r2 == add_rule(cores_on, expr2, <<expr1>>)
    IN  [rules |-> r1.rules \o r2.rules,
         assumptions |-> r1.assumptions \o r2.assumptions]

add_one_of_iff_NoUpperBound(cores_on, head, versions) ==
    LET at_least_1 == Atom("at_least_1", head.args)
        more_than_1 == Atom("more_than_1", head.args)
    IN  IF versions = <<>> THEN [rules |-> <<>>, assumptions |-> <<>>]
        ELSE [rules |->
                 <<BackendRule("one_of_iff", <<at_least_1>>, versions, <<>>,
                               FALSE, 1),
                   BackendRule("one_of_iff", <<more_than_1>>, versions, <<>>,
                               FALSE, 2),
                   BackendRule("one_of_iff", <<head>>, <<at_least_1>>,
                               <<more_than_1>>, FALSE, 0),
                   BackendRule("one_of_iff", <<>>, <<head>>,
                               <<at_least_1>>, FALSE, 0)>>,
              assumptions |-> <<>>]

add_one_of_iff(cores_on, head, versions) ==
    LET at_least_1 == Atom("at_least_1", head.args)
        more_than_1 == Atom("more_than_1", head.args)
    IN  IF versions = <<>> THEN [rules |-> <<>>, assumptions |-> <<>>]
        ELSE [rules |->
                 <<BackendRule("one_of_iff", <<at_least_1>>, versions, <<>>,
                               FALSE, 1),
                   BackendRule("one_of_iff", <<more_than_1>>, versions, <<>>,
                               FALSE, 2),
                   BackendRule("one_of_iff", <<head>>, <<at_least_1>>,
                               <<more_than_1>>, FALSE, 0),
                   BackendRule("one_of_iff", <<>>, <<head, more_than_1>>,
                               <<>>, FALSE, 0),
                   BackendRule("one_of_iff", <<>>, <<head>>,
                               <<at_least_1>>, FALSE, 0)>>,
              assumptions |-> <<>>]

\* the lists of distinct atoms a call can be given
AtomLists(S, n) ==
    {l \in SeqsUpTo(S, n) : \A i, j \in 1..Len(l) : i # j => l[i] # l[j]}

DriverInit ==
    /\ pc = "session"
    /\ raised = "none"
    /\ gen_cores \in BOOLEAN
    /\ backend_rules = <<>>
    /\ assumptions = <<>>
    /\ driver_calls = 0
    /\ conflicts = <<>>
    /\ candidate = {}
    /\ rejected = FALSE
    /\ emitted = <<>>
    /\ VersionIdle
    /\ DepIdle
    /\ RecordIdle
    /\ RunIdle
    /\ SolveIdle
    /\ BuildIdle
    /\ CmdIdle

\* the effect of an assertion call on the session
driver_call(r) ==
    /\ pc = "session"
    /\ driver_calls < MaxCalls
    /\ backend_rules' = backend_rules \o r.rules
    /\ assumptions' = assumptions \o r.assumptions
    /\ driver_calls' = driver_calls + 1
    /\ UNCHANGED <<pc, raised, conflictVars, emitted>>
    /\ UNCHANGED <<versionVars, depVars, recordVars, runVars>>
    /\ UNCHANGED setupFrame

\* PyclingoDriver.fact
fact == \E h \in DriverAtoms : driver_call(add_fact(gen_cores, h))

\* PyclingoDriver.rule
rule == \E h, b \in DriverAtoms : driver_call(add_rule(gen_cores, h, <<b>>))

\* PyclingoDriver.integrity_constraint
integrity_constraint_call ==
    \E b \in DriverAtoms, n \in AtomLists(DriverAtoms, 1) :
        driver_call(add_integrity_constraint(gen_cores, <<b>>, n))

\* PyclingoDriver.iff
iff == \E a, b \in DriverAtoms : driver_call(add_iff(gen_cores, a, b))

\* PyclingoDriver.one_of_iff
one_of_iff_call ==
    \E h \in DriverAtoms, vs \in AtomLists(DriverAtoms, Cardinality(DriverAtoms)) :
        driver_call(add_one_of_iff(gen_cores, h, vs))

DriverNext ==
    \/ fact
    \/ rule
    \/ integrity_constraint_call
    \/ iff
    \/ one_of_iff_call

DriverSpec == DriverInit /\ [][DriverNext]_vars

-----------------------------------------------------------------------------
(* Claims about the rule atoms of the driver *)

IsRuleAtom(a) == a.name = "rule"

\* C11: with cores, every rule and integrity constraint added to the backend
\* by rule, integrity_constraint, iff or one_of_iff has in its body a rule
\* atom that is a choice atom and is among the assumptions; without cores
\* there is no rule atom and no assumption.
C11_EveryRuleHasItsRuleAtom ==
    /\ gen_cores =>
          \A i \in 1..Len(backend_rules) :
              backend_rules[i].origin
                    \in {"rule", "integrity_constraint", "one_of_iff"} =>
                 \E j \in 1..Len(backend_rules[i].body) :
                    LET a == backend_rules[i].body[j]
                    IN  /\ IsRuleAtom(a)
                        /\ \E k \in 1..Len(assumptions) : assumptions[k] = a
                        /\ \E k \in 1..Len(backend_rules) :
                              /\ backend_rules[k].choice
                              /\ backend_rules[k].head = <<a>>
    /\ ~gen_cores =>
          /\ assumptions = <<>>
          /\ \A i \in 1..Len(backend_rules) :
                /\ \A j \in 1..Len(backend_rules[i].body) :
                      ~IsRuleAtom(backend_rules[i].body[j])
                /\ \A j \in 1..Len(backend_rules[i].head) :
                      ~IsRuleAtom(backend_rules[i].head[j])

-----------------------------------------------------------------------------
(* The answer sets of the rules of one_of_iff *)

\* bound on the number of alternatives of a call
MaxAlternatives == 3

\* the head of the call and the atoms its alternatives are drawn from
OneOfHead == Atom("version_satisfies", <<0>>)
Alternatives == {Atom("version", <<i>>) : i \in 1..MaxAlternatives}
OneOfAtoms ==
    {OneOfHead, Atom("at_least_1", <<0>>), Atom("more_than_1", <<0>>)}
    \cup Alternatives

\* backend.add_rule / backend.add_weight_rule: whether the body of a rule
\* holds in a set of atoms; the negated literals are read in the candidate
\* answer set; a weight rule (lower > 0, every weight 1) holds when at least
\* lower of its literals do
body_holds(r, atoms, cand) ==
    /\ \A i \in 1..Len(r.negated) : r.negated[i] \notin cand
    /\ IF r.lower > 0
       THEN Cardinality({i \in 1..Len(r.body) : r.body[i] \in atoms})
               >= r.lower
       ELSE \A i \in 1..Len(r.body) : r.body[i] \in atoms

\* the atoms the rules derive in one step
derive(rules, atoms, cand) ==
    atoms \cup {rules[i].head[1] : i \in
                   {j \in 1..Len(rules) :
                       /\ rules[j].head # <<>>
                       /\ body_holds(rules[j], atoms, cand)}}

RECURSIVE least_model(_, _, _)
least_model(rules, atoms, cand) ==
    IF derive(rules, atoms, cand) = atoms THEN atoms
    ELSE least_model(rules, derive(rules, atoms, cand), cand)

\* the stable models of the rules with heads, together with atoms that the
\* rest of the program makes true
stable_models(rules, given) ==
    {cand \in SUBSET OneOfAtoms : least_model(rules, given, cand) = cand}

\* an integrity constraint of the rules rules the candidate out
ruled_out(rules, cand) ==
    \E i \in 1..Len(rules) :
        /\ rules[i].head = <<>>
        /\ body_holds(rules[i], cand, cand)

OneOfInit ==
    /\ pc = "session"
    /\ raised = "none"
    /\ gen_cores \in BOOLEAN
    /\ backend_rules = <<>>
    /\ assumptions = <<>>
    /\ driver_calls = 0
    /\ conflicts = <<>>
    /\ candidate = {}
    /\ rejected = FALSE
    /\ emitted = <<>>
    /\ VersionIdle
    /\ DepIdle
    /\ RecordIdle
    /\ RunIdle
    /\ SolveIdle
    /\ BuildIdle
    /\ CmdIdle

\* PyclingoDriver.one_of_iff, called once with distinct alternatives
one_of_iff_alternatives ==
    /\ backend_rules = <<>>
    /\ \E vs \in AtomLists(Alternatives, MaxAlternatives) :
          driver_call(add_one_of_iff(gen_cores, OneOfHead, vs))

\* the alternatives of the call that was made
alternatives_called == Range(backend_rules[1].body)

\* the solver meets a candidate answer set in which the rest of the program
\* makes some of the alternatives, and maybe the head, true
solve_candidate ==
    /\ pc = "session"
    /\ backend_rules # <<>>
    /\ \E given \in SUBSET (alternatives_called \cup {OneOfHead}) :
          \E cand \in stable_models(backend_rules, given) :
             /\ candidate' = cand
             /\ rejected' = ruled_out(backend_rules, cand)
    /\ pc' = "candidate_checked"
    /\ UNCHANGED <<raised, conflicts, gen_cores, emitted>>
    /\ UNCHANGED <<versionVars, depVars, recordVars, runVars, driverVars>>
    /\ UNCHANGED setupFrame

OneOfNext ==
    \/ one_of_iff_alternatives
    \/ solve_candidate

OneOfSpec == OneOfInit /\ [][OneOfNext]_vars

-----------------------------------------------------------------------------
(* Claims about one_of_iff *)

\* exactly one of the alternatives is in a set of atoms
ExactlyOne(atoms) == Cardinality(atoms \cap alternatives_called) = 1

\* C17: after one_of_iff(head, alternatives) with a non-empty list of distinct
\* alternatives, a candidate is admitted exactly when head is in it if and
\* only if exactly one alternative is: a candidate with the head and no
\* alternative, or with the head and two or more alternatives, is ruled out;
\* one alternative alone makes the head true; and every assignment of the
\* head and the alternatives with "head iff exactly one" is an answer set.
C17_HeadIffExactlyOne ==
    /\ pc = "candidate_checked" =>
          /\ rejected <=> ~(OneOfHead \in candidate <=> ExactlyOne(candidate))
          /\ ExactlyOne(candidate) => OneOfHead \in candidate
    /\ backend_rules # <<>> =>
          \A t \in SUBSET (alternatives_called \cup {OneOfHead}) :
              (OneOfHead \in t <=> ExactlyOne(t)) =>
                 \E cand \in stable_models(backend_rules, t) :
                    /\ cand \cap (alternatives_called \cup {OneOfHead}) = t
                    /\ ~ruled_out(backend_rules, cand)

\* a candidate with the head and two alternatives was ruled out
C17_Witness ==
    /\ pc = "candidate_checked"
    /\ rejected
    /\ OneOfHead \in candidate
    /\ Cardinality(candidate \cap alternatives_called) = 2
    /\ Cardinality(alternatives_called) = MaxAlternatives

-----------------------------------------------------------------------------
(* SpackSolverSetup.define_target_constraints *)

\* bound on the number of comma-separated ranges of a target constraint
MaxRanges == 2

\* a range t_min:t_max, either side may be empty
TargetRanges == [t_min : {""} \cup Range(KnownTargets),
                 t_max : {""} \cup Range(KnownTargets)]

\* str(target_constraint).split(','): the ranges of a constraint, in order
TargetConstraintLists ==
    {l \in SeqsUpTo(TargetRanges, MaxRanges) : l # <<>>}

\* t <= u for microarchitectures: t is u or one of its ancestors
target_le(t, u) == t = u \/ t \in Range(target_ancestors(u))

\* _all_targets_satisfiying(single_constraint)
all_targets_satisfying(single_constraint) ==
    SelectSeq(KnownTargets, LAMBDA test_target :
        /\ single_constraint.t_min # "" =>
              target_le(single_constraint.t_min, test_target)
        /\ single_constraint.t_max # "" =>
              target_le(test_target, single_constraint.t_max))

\* allowed_targets of a constraint: the lists of its ranges, one after the
\* other
RECURSIVE allowed_targets(_)
allowed_targets(constraint) ==
    IF constraint = <<>> THEN <<>>
    ELSE all_targets_satisfying(Head(constraint))
         \o allowed_targets(Tail(constraint))

TargetPkg == "a"

node_target_satisfies(constraint) ==
    Atom("node_target_satisfies", <<TargetPkg, constraint>>)

TargetConstraintInit ==
    /\ pc = "define_target_constraints"
    /\ raised = "none"
    /\ gen_cores \in BOOLEAN
    /\ target_constraints \in
          {{<<TargetPkg, c>>} : c \in TargetConstraintLists}
    /\ virtual_constraints = {}
    /\ version_constraints = {}
    /\ compiler_version_constraints = {}
    /\ defined_log = <<>>
    /\ backend_rules = <<>>
    /\ assumptions = <<>>
    /\ driver_calls = 0
    /\ conflicts = <<>>
    /\ candidate = {}
    /\ rejected = FALSE
    /\ emitted = <<>>
    /\ VersionIdle
    /\ DepIdle
    /\ RunIdle
    /\ SolveIdle
    /\ BuildIdle
    /\ CmdIdle

\* SpackSolverSetup.define_target_constraints, for the recorded constraint
define_target_constraints ==
    /\ pc = "define_target_constraints"
    /\ \E c \in target_constraints :
          LET allowed == allowed_targets(c[2])
              atoms == [i \in 1..Len(allowed) |->
                           Atom("node_target", <<c[1], allowed[i]>>)]
              added == add_one_of_iff(gen_cores,
                                      node_target_satisfies(c[2]), atoms)
          IN  /\ backend_rules' = backend_rules \o added.rules
              /\ assumptions' = assumptions \o added.assumptions
              /\ emitted' = emitted
                     \o one_of_iff(node_target_satisfies(c[2]), atoms)
    /\ pc' = "targets_defined"
    /\ UNCHANGED <<raised, conflictVars, driver_calls, recordVars>>
    /\ UNCHANGED <<versionVars, depVars, runVars>>
    /\ UNCHANGED setupFrame

\* the stable models of the rules when the node has the atoms given
target_stable_models(rules, given) ==
    {cand \in SUBSET (given \cup
                      UNION {Range(rules[i].head) : i \in 1..Len(rules)}) :
        least_model(rules, given, cand) = cand}

\* the solver meets a candidate answer set in which the node has one target
solve_target_candidate ==
    /\ pc = "targets_defined"
    /\ \E t \in Range(KnownTargets) :
          \E cand \in target_stable_models(
                          backend_rules,
                          {Atom("node_target", <<TargetPkg, t>>)}) :
             /\ candidate' = cand
             /\ rejected' = ruled_out(backend_rules, cand)
    /\ pc' = "candidate_checked"
    /\ UNCHANGED <<raised, conflicts, gen_cores, emitted>>
    /\ UNCHANGED <<versionVars, depVars, recordVars, runVars, driverVars>>
    /\ UNCHANGED setupFrame

TargetConstraintNext ==
    \/ define_target_constraints
    \/ solve_target_candidate

TargetConstraintSpec ==
    TargetConstraintInit /\ [][TargetConstraintNext]_vars

-----------------------------------------------------------------------------
(* Claims about define_target_constraints *)

\* the target of the node in the candidate lies in a range
InRange(r) ==
    \E t \in Range(all_targets_satisfying(r)) :
        Atom("node_target", <<TargetPkg, t>>) \in candidate

\* C29: for a recorded target constraint of several comma-separated ranges, a
\* candidate in which the node has one target is admitted, and
\* node_target_satisfies(pkg, constraint) is in it exactly when the target
\* lies in at least one of the ranges, also when it lies in more than one.
C29_SatisfiedInSomeRange ==
    pc = "candidate_checked" =>
        \A c \in target_constraints :
            /\ ~rejected
            /\ node_target_satisfies(c[2]) \in candidate
                  <=> \E k \in 1..Len(c[2]) : InRange(c[2][k])

\* the same when the target lies in at most one of the ranges
C29_SatisfiedInOneRange ==
    pc = "candidate_checked" =>
        \A c \in target_constraints :
            Cardinality({k \in 1..Len(c[2]) : InRange(c[2][k])}) <= 1 =>
                /\ ~rejected
                /\ node_target_satisfies(c[2]) \in candidate
                      <=> \E k \in 1..Len(c[2]) : InRange(c[2][k])

-----------------------------------------------------------------------------
(* The solve subcommand (lib/spack/spack/cmd/solve.py) *)

show_options == <<"asp", "output", "solutions">>

\* what --show can be given, split at its commas
ShowWords == {"asp", "output", "solutions", "all", "bogus"}
ShowLists == {l \in SeqsUpTo(ShowWords, 2) : l # <<>>}

\* the values of --models
ModelCounts == {-1, 0, 1}

CmdInit ==
    /\ pc = "options"
    /\ raised = "none"
    /\ cmd_show \in ShowLists
    /\ cmd_models \in ModelCounts
    /\ cmd_satisfiable \in BOOLEAN
    /\ cmd_dump = <<>>
    /\ cmd_log = <<>>
    /\ cmd_exit = "running"
    /\ term = <<>>
    /\ symbol = <<>>
    /\ read_back = <<>>
    /\ SolveIdle
    /\ BuildIdle
    /\ SetupIdle

\* solve(): the dump options and the model count
process_options ==
    /\ pc = "options"
    /\ LET dump == IF "all" \in Range(cmd_show) THEN show_options
                   ELSE cmd_show
       IN  IF \E i \in 1..Len(dump) : dump[i] \notin Range(show_options)
           THEN /\ raised' = "ValueError"
                /\ cmd_exit' = "nonzero"
                /\ pc' = "exited"
                /\ UNCHANGED <<cmd_dump, cmd_log>>
           ELSE IF cmd_models < 0
           THEN /\ cmd_log' = Append(cmd_log, "die: model count")
                /\ cmd_exit' = "nonzero"
                /\ pc' = "exited"
                /\ UNCHANGED <<raised, cmd_dump>>
           ELSE /\ cmd_dump' = dump
                /\ pc' = "solve"
                /\ UNCHANGED <<raised, cmd_log, cmd_exit>>
    /\ UNCHANGED <<cmd_show, cmd_models, cmd_satisfiable>>
    /\ UNCHANGED <<term, symbol, read_back>>
    /\ UNCHANGED cmdFrame

\* solve(): spack.cmd.parse_specs and asp.solve
parse_and_solve ==
    /\ pc = "solve"
    /\ cmd_log' = cmd_log \o <<"parse_specs", "asp.solve">>
    /\ pc' = "report"
    /\ UNCHANGED <<raised, cmd_show, cmd_models, cmd_satisfiable, cmd_dump,
                   cmd_exit>>
    /\ UNCHANGED <<term, symbol, read_back>>
    /\ UNCHANGED cmdFrame

\* solve(): what follows asp.solve
report ==
    /\ pc = "report"
    /\ IF "solutions" \notin Range(cmd_dump)
       THEN /\ cmd_exit' = "zero"
            /\ UNCHANGED cmd_log
       ELSE IF ~cmd_satisfiable
       THEN /\ cmd_log' = cmd_log \o <<"print_cores", "die: Unsatisfiable spec.">>
            /\ cmd_exit' = "nonzero"
       ELSE /\ cmd_log' = Append(cmd_log, "print answers")
            /\ cmd_exit' = "zero"
    /\ pc' = "exited"
    /\ UNCHANGED <<raised, cmd_show, cmd_models, cmd_satisfiable, cmd_dump>>
    /\ UNCHANGED <<term, symbol, read_back>>
    /\ UNCHANGED cmdFrame

CmdNext ==
    \/ process_options
    \/ parse_and_solve
    \/ report

CmdSpec == CmdInit /\ [][CmdNext]_vars

-----------------------------------------------------------------------------
(* Claims about the solve subcommand *)

ValidShow ==
    \A i \in 1..Len(cmd_show) :
        cmd_show[i] \in {"asp", "output", "solutions", "all"}

\* C12: once the command has ended: with valid options and specs that cannot
\* be solved it ended non-zero with 'Unsatisfiable spec.' after the cores
\* were printed, whatever --show; with a --show word that is not allowed or
\* a negative --models it ended non-zero and neither parsed nor solved.
C12_NonZeroOnUnsatOrBadFlags ==
    pc = "exited" =>
        /\ (ValidShow /\ cmd_models >= 0 /\ ~cmd_satisfiable) =>
              /\ cmd_exit = "nonzero"
              /\ Len(cmd_log) >= 2
              /\ SubSeq(cmd_log, Len(cmd_log) - 1, Len(cmd_log)) =
                    <<"print_cores", "die: Unsatisfiable spec.">>
        /\ (~ValidShow \/ cmd_models < 0) =>
              /\ cmd_exit = "nonzero"
              /\ "parse_specs" \notin Range(cmd_log)
              /\ "asp.solve" \notin Range(cmd_log)

-----------------------------------------------------------------------------
(* AspFunction.symbol and the tuples PyclingoDriver.solve reads back *)

\* bound on the number of arguments of a term
MaxArgs == 2

\* Python values: a str, an int or a bool
PyStr(x) == [type |-> "str", str |-> x, int |-> 0, bool |-> FALSE]
PyInt(n) == [type |-> "int", str |-> "", int |-> n, bool |-> FALSE]
PyBool(b) == [type |-> "bool", str |-> "", int |-> 0, bool |-> b]
PyValues ==
    {PyStr(x) : x \in {"", "a"}} \cup {PyInt(n) : n \in 0..1}
        \cup {PyBool(b) : b \in BOOLEAN}

\* clingo symbols: a String or a Number
ClingoString(x) == [type |-> "String", string |-> x, number |-> 0]
ClingoNumber(n) == [type |-> "Number", string |-> "", number |-> n]

\* str() of a bool, of an int of the model and of a clingo symbol
StrOfBool(b) == IF b THEN "True" ELSE "False"
StrOfInt(n) == <<"0", "1">>[n + 1]
StrOfSymbol(x) ==
    IF x.type = "Number" THEN StrOfInt(x.number)
    ELSE IF x.string = "" THEN "\"\"" ELSE x.string

\* AspFunction.symbol.argify, as clingo.Function takes its result
argify(arg) ==
    IF arg.type = "bool" THEN ClingoString(StrOfBool(arg.bool))
    ELSE IF arg.type = "int" THEN ClingoNumber(arg.int)
    ELSE ClingoString(arg.str)

\* stringify in PyclingoDriver.solve: x.string or str(x); the string of a
\* Number is None, the empty string is false
stringify(x) ==
    IF x.type = "String" /\ x.string # "" THEN PyStr(x.string)
    ELSE PyStr(StrOfSymbol(x))

TermInit ==
    /\ pc = "symbol"
    /\ raised = "none"
    /\ term \in [name : {"node", "version_declared"},
                 args : SeqsUpTo(PyValues, MaxArgs)]
    /\ symbol = <<>>
    /\ read_back = <<>>
    /\ cmd_show = <<>>
    /\ cmd_models = 0
    /\ cmd_satisfiable = FALSE
    /\ cmd_dump = <<>>
    /\ cmd_log = <<>>
    /\ cmd_exit = ""
    /\ SolveIdle
    /\ BuildIdle
    /\ SetupIdle

\* AspFunction.symbol
to_symbol ==
    /\ pc = "symbol"
    /\ symbol' = [name |-> term.name,
                  arguments |-> [i \in 1..Len(term.args) |->
                                    argify(term.args[i])]]
    /\ pc' = "tuple"
    /\ UNCHANGED <<raised, term, read_back>>
    /\ UNCHANGED <<cmd_show, cmd_models, cmd_satisfiable, cmd_dump, cmd_log,
                   cmd_exit>>
    /\ UNCHANGED cmdFrame

\* PyclingoDriver.solve: the tuple of a symbol of the best model
to_tuple ==
    /\ pc = "tuple"
    /\ read_back' = [name |-> symbol.name,
                     args |-> [i \in 1..Len(symbol.arguments) |->
                                  stringify(symbol.arguments[i])]]
    /\ pc' = "read"
    /\ UNCHANGED <<raised, term, symbol>>
    /\ UNCHANGED <<cmd_show, cmd_models, cmd_satisfiable, cmd_dump, cmd_log,
                   cmd_exit>>
    /\ UNCHANGED cmdFrame

TermNext ==
    \/ to_symbol
    \/ to_tuple

TermSpec == TermInit /\ [][TermNext]_vars

-----------------------------------------------------------------------------
(* Claims about the term model *)

\* C14: the tuple read back from the symbol of a term has the term's name
\* and the term's arguments, with their values and types, in their order.
C14_TermsRoundTrip ==
    pc = "read" => read_back.name = term.name /\ read_back.args = term.args

====
